---- MODULE Spec2Model ----
(***************************************************************************)
(* A model of the peak-fitting scripts of spectrix:                        *)
(*   src/root_conversions/gaussian_fitter.py  GaussianFit, load_result,    *)
(*                                            Add_UUID_to_Result           *)
(*   src/tests/lmfit_test.py, src/lmfit_test.py  MultipleGaussianFit,      *)
(*                                            LinearFit, QuadraticFit, ... *)
(*   src/root_conversions/spectrix_histograms_to_root.py, src/test.py      *)
(*                                            write_histograms             *)
(*                                                                         *)
(* Numbers.  Bin centers, markers and counts are integers.  The width      *)
(* estimate divides by 2.3548, so every quantity on the x axis that the    *)
(* code derives from it (sigma, center value, center min/max) is kept as   *)
(* an integer number of 1/SigmaDen units: a center at x is x * SigmaDen.   *)
(*                                                                         *)
(* The solver.  lmfit's minimiser is not code of this repository.  A call  *)
(* of model.fit is a nondeterministic step: every varying parameter ends   *)
(* at one end of its [min, max] interval (-SolverFloor / SolverCeil when   *)
(* that end is infinite), a parameter with vary = False keeps its value,   *)
(* a parameter bound by an expression is evaluated from the others, and    *)
(* the standard errors are either all present or all None.                 *)
(***************************************************************************)
EXTENDS Integers, Sequences, FiniteSets, TLC

\* ---------------------------------------------------------------- bounds
NBins == 7          \* bins of the input histogram
BinWidth == 2       \* centers[1] - centers[0] of the input histogram
FirstCenter == 2    \* centers[0]
MaxCount == 4       \* tallest bin of the input histograms
SolverFloor == 3    \* the solver leaves a varying parameter with min = -inf at -SolverFloor
SolverCeil == 5     \* the solver leaves a varying parameter with max = +inf at SolverCeil
MaxHistBins == 3    \* longest list of bins given to write_histograms

\* ------------------------------------------------------ program constants
Inf == 1000000000   \* np.inf; -Inf is -np.inf
SigmaNum == 10000   \* 2.3548 = SigmaDen / SigmaNum
SigmaDen == 23548
FwhmNum == 235482   \* fwhm = 2.35482 * sigma: FwhmNum / FwhmDen
FwhmDen == 100000
Float32Exact == 16777216  \* 2^24: np.float32 holds every integer up to it

None == <<>>        \* Python None (an Optional is a sequence of length <= 1)
Some(v) == <<v>>
PyNone == "<None>"  \* the value None where a string is expected (bg_type)

\* ---------------------------------------------------------------- helpers
Min2(a, b) == IF a <= b THEN a ELSE b
Max2(a, b) == IF a >= b THEN a ELSE b
Abs(a) == IF a < 0 THEN -a ELSE a

\* sorted(): ascending, stable
InsertSorted(v, s) ==
    LET k == Cardinality({i \in 1..Len(s) : s[i] <= v})
    IN SubSeq(s, 1, k) \o <<v>> \o SubSeq(s, k + 1, Len(s))

\* a variant of sorted() that leaves the order as given
Unsorted(s) == s

RECURSIVE sorted(_)
sorted(s) ==
    IF Len(s) = 0 THEN <<>>
    ELSE InsertSorted(s[Len(s)], sorted(SubSeq(s, 1, Len(s) - 1)))

\* a variant of the mask without the upper end, (centers >= lo)
MaskNoUpperEnd(centers, lo, hi) ==
    SelectSeq([i \in 1..Len(centers) |-> i], LAMBDA i : centers[i] >= lo)

\* the indices a boolean numpy mask (centers >= lo) & (centers <= hi) selects
Mask(centers, lo, hi) ==
    SelectSeq([i \in 1..Len(centers) |-> i],
              LAMBDA i : centers[i] >= lo /\ centers[i] <= hi)

\* The sequence a function on 1..n is, as a tuple
List(f) == SubSeq(f, 1, Len(f))

\* array[mask]
Take(s, idx) == List([k \in 1..Len(idx) |-> s[idx[k]]])

\* a variant of np.argmax that takes the last of the maxima
argmaxLast(s) ==
    CHOOSE i \in 1..Len(s) :
        /\ \A j \in 1..Len(s) : s[j] <= s[i]
        /\ \A j \in (i + 1)..Len(s) : s[j] < s[i]

\* np.argmax / np.argmin: the first index of an extreme value (1-based here)
argmax(s) ==
    CHOOSE i \in 1..Len(s) :
        /\ \A j \in 1..Len(s) : s[j] <= s[i]
        /\ \A j \in 1..(i - 1) : s[j] < s[i]

argmin(s) ==
    CHOOSE i \in 1..Len(s) :
        /\ \A j \in 1..Len(s) : s[j] >= s[i]
        /\ \A j \in 1..(i - 1) : s[j] > s[i]

\* np.abs(x_data - peak).argmin(): the bin of x_data closest to peak
Closest(x_data, peak) == argmin([k \in 1..Len(x_data) |-> Abs(x_data[k] - peak)])

\* ----------------------------------------------------------------- errors
NoError == [type |-> "", msg |-> ""]
Raise(type, msg) == [type |-> type, msg |-> msg]
UnsupportedMsg == "Unsupported background model"

\* --------------------------------------------- lmfit Parameters, as used
\* An expression bound to a parameter.  op "ref": the value of parameter `of`;
\* "scale": value of `of` * num / den; "area": value of `of` * sqrt(2 pi) *
\* value of `of2` * num / den.
NoExpr == [op |-> "none", of |-> "", of2 |-> "", num |-> 0, den |-> 1]
Expr(op, of, of2, num, den) ==
    [op |-> op, of |-> of, of2 |-> of2, num |-> num, den |-> den]

Parameter(name, value) ==
    [name |-> name, value |-> value, vary |-> TRUE, min |-> -Inf, max |-> Inf,
     expr |-> NoExpr, stderr |-> None]

Names(params) == {params[i].name : i \in DOMAIN params}
Idx(params, name) == CHOOSE i \in DOMAIN params : params[i].name = name
Get(params, name) == params[Idx(params, name)]

\* Parameters.update(other) / Parameters.add(p): replace by name, else append
Add(params, p) ==
    IF p.name \in Names(params)
    THEN [params EXCEPT ![Idx(params, p.name)] = p]
    ELSE Append(params, p)

RECURSIVE Update(_, _)
Update(params, other) ==
    IF Len(other) = 0 THEN params
    ELSE Update(Add(params, Head(other)), Tail(other))

Clip(v, lo, hi) == Max2(lo, Min2(v, hi))

\* Parameter.set(vary=v): a parameter made to vary loses its expression
SetVary(params, name, v) ==
    [params EXCEPT ![Idx(params, name)] =
        [@ EXCEPT !.vary = v, !.expr = IF v THEN NoExpr ELSE @]]

\* Parameter.set(min=m)
SetMin(params, name, m) ==
    [params EXCEPT ![Idx(params, name)] = [@ EXCEPT !.min = m]]

\* Parameter.set(expr=e): a constrained parameter does not vary
SetExpr(params, name, e) ==
    [params EXCEPT ![Idx(params, name)] = [@ EXCEPT !.expr = e, !.vary = FALSE]]

\* Parameter.set(value=v, vary=b)
SetValueVary(params, name, v, b) ==
    [params EXCEPT ![Idx(params, name)] =
        [@ EXCEPT !.value = v, !.vary = b, !.expr = NoExpr]]

\* a variant of Parameter.set(value=, min=, max=) that also sets vary=True
SetValueMinMaxVaryOn(params, name, v, lo, hi) ==
    [params EXCEPT ![Idx(params, name)] =
        [@ EXCEPT !.min = lo, !.max = hi, !.value = Clip(v, lo, hi),
                  !.expr = NoExpr, !.vary = TRUE]]

\* Parameter.set(value=v, min=lo, max=hi): vary is left as it is, the
\* expression is dropped, the value is kept inside the new bounds
SetValueMinMax(params, name, v, lo, hi) ==
    [params EXCEPT ![Idx(params, name)] =
        [@ EXCEPT !.min = lo, !.max = hi, !.value = Clip(v, lo, hi),
                  !.expr = NoExpr]]

\* Parameter.set(min=lo, max=hi, value=v, vary=b)
SetMinMaxValueVary(params, name, lo, hi, v, b) ==
    [params EXCEPT ![Idx(params, name)] =
        [@ EXCEPT !.min = lo, !.max = hi, !.value = Clip(v, lo, hi),
                  !.vary = b, !.expr = NoExpr]]

\* Parameter.set(min=lo, max=hi)
SetMinMax(params, name, lo, hi) ==
    [params EXCEPT ![Idx(params, name)] = [@ EXCEPT !.min = lo, !.max = hi]]

\* ------------------------------------------------------------ GaussianFit
\* The background model and its parameters, from background_params
\* (gaussian_fitter.py lines 94-122).  A coefficient's tuple is
\* (_, min, max, initial value, vary): Python's [3] and [4] are [4] and [5].
BgCoefs(bg_type) ==
    CASE bg_type = "linear" -> <<"slope", "intercept">>
      [] bg_type = "quadratic" -> <<"a", "b", "c">>
      [] bg_type = "exponential" -> <<"amplitude", "decay">>
      [] bg_type = "powerlaw" -> <<"amplitude", "exponent">>
      [] OTHER -> <<>>

\* a variant of the dispatch that also takes Python's None
GaussianFitBgTypesAndNone ==
    {"linear", "quadratic", "exponential", "powerlaw", "None", PyNone}

GaussianFitBgTypes == {"linear", "quadratic", "exponential", "powerlaw", "None"}

BgModelOf(bg_type) == IF bg_type \in {"None", PyNone} THEN "constant" ELSE bg_type

\* a variant of lines 117-120 that leaves bg_c free
NoBackgroundParamsVaried == <<Parameter("bg_c", 0)>>

\* Lines 117-120: ConstantModel(prefix='bg_'), make_params(c=0), set(vary=False)
NoBackgroundParams == SetVary(<<Parameter("bg_c", 0)>>, "bg_c", FALSE)

\* make_params(coef=tuple[3]) and then .set(vary=tuple[4]) for each coefficient
BgMakeParams(bg_type, background_params) ==
    IF bg_type = "None"
    THEN NoBackgroundParams
    ELSE LET coefs == BgCoefs(bg_type)
             made == List([k \in 1..Len(coefs) |->
                        Parameter("bg_" \o coefs[k], background_params[coefs[k]][4])])
             RECURSIVE setVary(_, _)
             setVary(ps, k) ==
                 IF k > Len(coefs) THEN ps
                 ELSE setVary(SetVary(ps, "bg_" \o coefs[k],
                                      background_params[coefs[k]][5]), k + 1)
         IN setVary(made, 1)

\* a variant of lines 82-92 that falls back to the maximum bin when the filter leaves no marker
PeakMarkersFallbackLast(given, region_markers, x_data, y_data) ==
    LET kept == SelectSeq(sorted(given),
                    LAMBDA peak : peak >= region_markers[1]
                                  /\ peak <= region_markers[2])
    IN IF Len(kept) = 0 /\ Len(y_data) > 0 THEN <<x_data[argmax(y_data)]>> ELSE kept

\* a variant of lines 82-92 that sorts the markers and keeps those outside
\* the region
PeakMarkersKeepOutside(given, region_markers, x_data, y_data) ==
    LET markers == IF Len(given) = 0 THEN <<x_data[argmax(y_data)]>> ELSE given
    IN sorted(markers)

\* Lines 82-92: the maximum bin when no marker is given (y_data is not
\* empty here), then the markers sorted, then those outside the region dropped
PeakMarkers(given, region_markers, x_data, y_data) ==
    LET markers == IF Len(given) = 0 THEN <<x_data[argmax(y_data)]>> ELSE given
    IN SelectSeq(sorted(markers),
           LAMBDA peak : peak >= region_markers[1] /\ peak <= region_markers[2])

\* a variant of line 56 that raises only when centers is the longer one
LengthsDifferCentersLonger(centers, counts) == Len(centers) > Len(counts)

\* Lines 56-57: if len(centers) != len(counts): raise ValueError(...)
LengthsDiffer(centers, counts) == Len(centers) # Len(counts)
LengthMsg == "The length of edges must be one more than the length of counts."

\* Lines 56-122: the checks, the region, the peak markers, the background
\* model.  The result is the error raised, or the locals at line 124.
GaussianFit_Begin(a) ==
    LET unset == [err |-> NoError, bin_width |-> 0, region_markers |-> <<>>,
                  x_data |-> <<>>, y_data |-> <<>>, peak_markers |-> <<>>,
                  params |-> <<>>]
        fail(t, m) == [unset EXCEPT !.err = Raise(t, m)]
    IN
    IF LengthsDiffer(a.centers, a.counts)
    THEN fail("ValueError", LengthMsg)
    ELSE IF Len(a.centers) < 2
    THEN fail("IndexError", "index 1 is out of bounds")
    ELSE IF Len(a.region_markers) # 2
    THEN fail("ValueError", "Region markers must have exactly 2 values.")
    ELSE
    LET bin_width == a.centers[2] - a.centers[1]
        region_markers == sorted(a.region_markers)
        region_mask == Mask(a.centers, region_markers[1], region_markers[2])
        x_data == Take(a.centers, region_mask)
        y_data == Take(a.counts, region_mask)
    IN
    IF Len(a.peak_markers) = 0 /\ Len(y_data) = 0
    THEN fail("ValueError", "attempt to get an argmax of an empty sequence")
    ELSE
    LET peak_markers == PeakMarkers(a.peak_markers, region_markers, x_data, y_data)
        bg_type == a.background_params.bg_type
    IN
    IF bg_type \notin GaussianFitBgTypes
    THEN fail("ValueError", UnsupportedMsg)
    ELSE [err |-> NoError, bin_width |-> bin_width,
          region_markers |-> region_markers,
          x_data |-> x_data, y_data |-> y_data,
          peak_markers |-> peak_markers,
          params |-> BgMakeParams(bg_type, a.background_params)]

\* a variant of lines 124-127 whose default is the full region
BackgroundMarkersFullRegion(a, region_markers, bin_width) ==
    IF Len(a.background_markers) = 0
    THEN <<region_markers>>
    ELSE a.background_markers

\* Lines 124-140: the ranges the background is pre-fitted on, and the bins
\* (indices into centers, a bin once per range that holds it) inside them.
BackgroundMarkers(a, region_markers, bin_width) ==
    IF Len(a.background_markers) = 0
    THEN << <<region_markers[1] - bin_width, region_markers[1]>>,
            <<region_markers[2], region_markers[2] + bin_width>> >>
    ELSE a.background_markers

RECURSIVE BgBins(_, _)
BgBins(centers, background_markers) ==
    IF Len(background_markers) = 0 THEN <<>>
    ELSE LET r == sorted(Head(background_markers))
         IN Mask(centers, r[1], r[2]) \o BgBins(centers, Tail(background_markers))

\* ---------------------------------------------------------------- solver
\* The value of a parameter bound by an expression is a fraction num/den,
\* times sqrt(2 pi) when sqrt2pi is set.
Derived(num, den, sqrt2pi) == [num |-> num, den |-> den, sqrt2pi |-> sqrt2pi]
Unevaluated == Derived(0, 1, FALSE)

SolverOutcomes == [dir : {"lo", "hi"}, errorbars : BOOLEAN]

\* What Model.fit returns as result.params (see the header).
Solve(params, o) ==
    LET free(p) ==
            IF p.expr.op # "none" THEN p
            ELSE IF p.vary
            THEN [p EXCEPT !.value =
                      IF o.dir = "lo"
                      THEN (IF p.min = -Inf THEN -SolverFloor ELSE p.min)
                      ELSE (IF p.max = Inf THEN SolverCeil ELSE p.max),
                    !.stderr = IF o.errorbars THEN Some(1) ELSE None]
            ELSE [p EXCEPT !.stderr = IF o.errorbars THEN Some(0) ELSE None]
        ps1 == List([i \in DOMAIN params |-> free(params[i])])
        V(n) == LET q == Get(ps1, n)
                IN IF q.expr.op = "ref" THEN Get(ps1, q.expr.of).value ELSE q.value
        bound(p, d) ==
            LET lo == IF p.min = -Inf THEN d.num ELSE Max2(d.num, p.min * d.den)
                hi == IF p.max = Inf THEN lo ELSE Min2(lo, p.max * d.den)
            IN [d EXCEPT !.num = hi]
        eval(p) ==
            CASE p.expr.op = "ref" -> V(p.expr.of)
              [] p.expr.op = "scale" ->
                    bound(p, Derived(V(p.expr.of) * p.expr.num, p.expr.den, FALSE))
              [] p.expr.op = "area" ->
                    bound(p, Derived(V(p.expr.of) * V(p.expr.of2) * p.expr.num,
                                     p.expr.den, TRUE))
    IN List([i \in DOMAIN ps1 |->
          IF ps1[i].expr.op = "none" THEN ps1[i]
          ELSE [ps1[i] EXCEPT !.value = eval(ps1[i]),
                              !.stderr = IF o.errorbars THEN Some(1) ELSE None]])

\* ModelResult.eval(x=...) of a background model: the value coef for the
\* polynomial models, coef * exp(-x / p) and coef * x^p for the other two.
BgEval(bg_model, ps, x) ==
    LET v(n) == Get(ps, "bg_" \o n).value
        poly(c) == [kind |-> "poly", coef |-> c, x |-> 0, p |-> 0]
    IN CASE bg_model = "linear" -> poly(v("slope") * x + v("intercept"))
         [] bg_model = "quadratic" -> poly(v("a") * x * x + v("b") * x + v("c"))
         [] bg_model = "constant" -> poly(v("c"))
         [] bg_model = "exponential" ->
               [kind |-> "exp", coef |-> v("amplitude"), x |-> x, p |-> v("decay")]
         [] bg_model = "powerlaw" ->
               [kind |-> "pow", coef |-> v("amplitude"), x |-> x, p |-> v("exponent")]

RECURSIVE FreezeBackground(_, _)
\* a variant of lines 152-154 that keeps the caller's vary flag
FreezeBackgroundKeepVary(params, bg_params) ==
    IF Len(bg_params) = 0 THEN params
    ELSE FreezeBackground(
             SetValueVary(params, Head(bg_params).name, Head(bg_params).value,
                          Head(bg_params).vary),
             Tail(bg_params))

\* Lines 152-154: every parameter of the background result is copied into
\* params with vary=False.
FreezeBackground(params, bg_params) ==
    IF Len(bg_params) = 0 THEN params
    ELSE FreezeBackground(
             SetValueVary(params, Head(bg_params).name, Head(bg_params).value, FALSE),
             Tail(bg_params))

\* a variant of estimate_sigma whose line 181 returns fwhm / 2.3548 alone,
\* without the floor of two bin widths
estimate_sigmaNoFloor(x_data, y_data, peak) ==
    LET peak_idx == Closest(x_data, peak)
        peak_height == y_data[peak_idx]
        left_idx == {j \in 1..(peak_idx - 1) : 2 * y_data[j] <= peak_height}
        right_idx == {j \in peak_idx..Len(x_data) : 2 * y_data[j] <= peak_height}
    IN IF Len(x_data) < 2 THEN [ok |-> FALSE, sigma |-> 0]
       ELSE IF left_idx = {} \/ right_idx = {}
       THEN [ok |-> TRUE, sigma |-> (x_data[2] - x_data[1]) * 2 * SigmaDen]
       ELSE LET left_fwhm == x_data[CHOOSE j \in left_idx : \A k \in left_idx : k <= j]
                right_fwhm == x_data[CHOOSE j \in right_idx : \A k \in right_idx : j <= k]
            IN [ok |-> TRUE, sigma |-> (right_fwhm - left_fwhm) * SigmaNum]

\* Lines 165-181: sigma from the half-maximum crossings around `peak`, in
\* 1/SigmaDen units; ok is FALSE where x_data[1] raises IndexError.
estimate_sigma(x_data, y_data, peak) ==
    LET peak_idx == Closest(x_data, peak)
        peak_height == y_data[peak_idx]
        \* y <= peak_height / 2
        left_idx == {j \in 1..(peak_idx - 1) : 2 * y_data[j] <= peak_height}
        right_idx == {j \in peak_idx..Len(x_data) : 2 * y_data[j] <= peak_height}
    IN IF Len(x_data) < 2 THEN [ok |-> FALSE, sigma |-> 0]
       ELSE IF left_idx = {} \/ right_idx = {}
       THEN [ok |-> TRUE, sigma |-> (x_data[2] - x_data[1]) * 2 * SigmaDen]
       ELSE LET left_fwhm == x_data[CHOOSE j \in left_idx : \A k \in left_idx : k <= j]
                right_fwhm == x_data[CHOOSE j \in right_idx : \A k \in right_idx : j <= k]
                fwhm == right_fwhm - left_fwhm
            IN [ok |-> TRUE,
                sigma |-> Max2(fwhm * SigmaNum, (x_data[2] - x_data[1]) * 2 * SigmaDen)]

\* f'g{i}_<what>'
G(i, what) == "g" \o ToString(i) \o "_" \o what

\* Line 201: (height - bg_at_peak) * estimated_sigma / 0.3989423, unevaluated
AmplitudeEstimate(height, bg_at_peak, estimated_sigma) ==
    [height |-> height, bg |-> bg_at_peak, sigma |-> estimated_sigma]

\* a variant of lines 223-244 that binds every center to the whole region
CenterBoundsWholeRegion(i, peak_markers, region_markers, estimated_sigma) ==
    [min |-> region_markers[1] * SigmaDen, max |-> region_markers[2] * SigmaDen]

\* a variant of lines 223-244 whose min_val is peak + sigma_range *
\* estimated_sigma when the previous peak is further than that
CenterBoundsMinAbovePeak(i, peak_markers, region_markers, estimated_sigma) ==
    LET peak == peak_markers[i] IN
    IF Len(peak_markers) = 1
    THEN [min |-> region_markers[1] * SigmaDen, max |-> region_markers[2] * SigmaDen]
    ELSE LET prev_peak == IF i = 1 THEN region_markers[1] ELSE peak_markers[i - 1]
             next_peak == IF i = Len(peak_markers) THEN region_markers[2]
                          ELSE peak_markers[i + 1]
             prev_dist == Abs(peak - prev_peak)
             next_dist == Abs(peak - next_peak)
             min_val == IF prev_dist * SigmaDen <= estimated_sigma
                        THEN prev_peak * SigmaDen
                        ELSE peak * SigmaDen + estimated_sigma
             max_val == IF next_dist * SigmaDen <= estimated_sigma
                        THEN next_peak * SigmaDen
                        ELSE peak * SigmaDen + estimated_sigma
         IN [min |-> Max2(region_markers[1] * SigmaDen, min_val),
             max |-> Min2(region_markers[2] * SigmaDen, max_val)]

\* Lines 223-244: the min and max bound to the center of peak i (1-based),
\* in 1/SigmaDen units.
CenterBounds(i, peak_markers, region_markers, estimated_sigma) ==
    LET peak == peak_markers[i] IN
    IF Len(peak_markers) = 1
    THEN [min |-> region_markers[1] * SigmaDen, max |-> region_markers[2] * SigmaDen]
    ELSE LET prev_peak == IF i = 1 THEN region_markers[1] ELSE peak_markers[i - 1]
             next_peak == IF i = Len(peak_markers) THEN region_markers[2]
                          ELSE peak_markers[i + 1]
             prev_dist == Abs(peak - prev_peak)
             next_dist == Abs(peak - next_peak)
             \* sigma_range = 1
             min_val == IF prev_dist * SigmaDen <= estimated_sigma
                        THEN prev_peak * SigmaDen
                        ELSE peak * SigmaDen - estimated_sigma
             max_val == IF next_dist * SigmaDen <= estimated_sigma
                        THEN next_peak * SigmaDen
                        ELSE peak * SigmaDen + estimated_sigma
         IN [min |-> Max2(region_markers[1] * SigmaDen, min_val),
             max |-> Min2(region_markers[2] * SigmaDen, max_val)]

\* GaussianModel(prefix=f'g{i}_').make_params(amplitude=..., sigma=...): the
\* keyword mean= names no parameter of GaussianModel and sets nothing; the
\* height parameter, which the code never reads, is left out.
GaussianMakeParams(i, amplitude, sigma) ==
    << Parameter(G(i, "amplitude"), amplitude),
       Parameter(G(i, "center"), 0),
       [Parameter(G(i, "sigma"), sigma) EXCEPT !.min = 0],
       [Parameter(G(i, "fwhm"), Unevaluated)
           EXCEPT !.vary = FALSE,
                  !.expr = Expr("scale", G(i, "sigma"), "", FwhmNum, FwhmDen)] >>

\* a variant of line 217 with the area of the gaussian() of lmfit_test.py
AreaExprOfHeight(i, bin_width) ==
    Expr("area", G(i, "amplitude"), G(i, "sigma"), 1, bin_width)

\* Line 217: expr=f'g{i}_amplitude / {bin_width}'
AreaExpr(i, bin_width) == Expr("scale", G(i, "amplitude"), "", 1, bin_width)

\* a variant of lines 205-244 that never binds a width to g0_sigma
BindPeakIndependentSigma(params, i, a, L, estimated_amplitude, estimated_sigma) ==
    LET peak == L.peak_markers[i + 1]
        p1 == Update(params,
                     GaussianMakeParams(i, estimated_amplitude[i + 1], estimated_sigma))
        p2 == SetMin(p1, G(i, "sigma"), 0)
        p3 == Add(p2, [Parameter(G(i, "area"), Unevaluated)
                          EXCEPT !.vary = FALSE, !.expr = AreaExpr(i, L.bin_width)])
        p4 == SetMin(p3, G(i, "area"), 0)
        p5 == IF ~a.free_position THEN SetVary(p4, G(i, "center"), FALSE) ELSE p4
        b == CenterBounds(i + 1, L.peak_markers, L.region_markers, estimated_sigma)
    IN SetValueMinMax(p5, G(i, "center"), peak * SigmaDen, b.min, b.max)

\* Lines 205-244 for the peak with Python index i
BindPeak(params, i, a, L, estimated_amplitude, estimated_sigma) ==
    LET peak == L.peak_markers[i + 1]
        p1 == Update(params,
                     GaussianMakeParams(i, estimated_amplitude[i + 1], estimated_sigma))
        p2 == IF a.equal_sigma /\ i > 0
              THEN SetExpr(p1, G(i, "sigma"), Expr("ref", "g0_sigma", "", 1, 1))
              ELSE SetMin(p1, G(i, "sigma"), 0)
        p3 == Add(p2, [Parameter(G(i, "area"), Unevaluated)
                          EXCEPT !.vary = FALSE, !.expr = AreaExpr(i, L.bin_width)])
        p4 == SetMin(p3, G(i, "area"), 0)
        p5 == IF ~a.free_position THEN SetVary(p4, G(i, "center"), FALSE) ELSE p4
        b == CenterBounds(i + 1, L.peak_markers, L.region_markers, estimated_sigma)
    IN SetValueMinMax(p5, G(i, "center"), peak * SigmaDen, b.min, b.max)

RECURSIVE BindPeaks(_, _, _, _, _, _)
BindPeaks(params, i, a, L, estimated_amplitude, estimated_sigma) ==
    IF i >= Len(L.peak_markers) THEN params
    ELSE BindPeaks(BindPeak(params, i, a, L, estimated_amplitude, estimated_sigma),
                   i + 1, a, L, estimated_amplitude, estimated_sigma)

\* Lines 159-245: the width and amplitude estimates and the peak parameters.
\* L holds the locals (bin_width, region_markers, x_data, y_data,
\* peak_markers, params), bg_result the parameters of the background result.
GaussianFit_Bind(a, L, bg_result) ==
    LET fail(t, m) == [err |-> Raise(t, m), estimated_sigma |-> 0,
                       estimated_amplitude |-> <<>>, params |-> L.params]
    IN
    IF Len(L.peak_markers) = 0
    THEN fail("ValueError", "attempt to get an argmax of an empty sequence")
    ELSE IF Len(L.x_data) = 0
    THEN fail("ValueError", "attempt to get an argmin of an empty sequence")
    ELSE
    LET heights == List([k \in 1..Len(L.peak_markers) |->
                       L.y_data[Closest(L.x_data, L.peak_markers[k])]])
        peak_with_max_count == L.peak_markers[argmax(heights)]
        es == estimate_sigma(L.x_data, L.y_data, peak_with_max_count)
    IN
    IF ~es.ok THEN fail("IndexError", "index 1 is out of bounds")
    ELSE
    LET bg_model == BgModelOf(a.background_params.bg_type)
        estimated_amplitude ==
            List([k \in 1..Len(L.peak_markers) |->
                AmplitudeEstimate(heights[k],
                                  BgEval(bg_model, bg_result, L.peak_markers[k]),
                                  es.sigma)])
    IN [err |-> NoError, estimated_sigma |-> es.sigma,
        estimated_amplitude |-> estimated_amplitude,
        params |-> BindPeaks(L.params, 0, a, L, estimated_amplitude, es.sigma)]

\* Lines 259-285: one tuple per peak and the background list.  `center` is the
\* name of the position parameter: "center" (GaussianModel) or "mean" (gaussian)
OrZero(stderr) == IF stderr = None THEN 0 ELSE stderr[1]

PeakTuple(result, i, center) ==
    [amplitude |-> Get(result, G(i, "amplitude")).value,
     amplitude_uncertainty |-> OrZero(Get(result, G(i, "amplitude")).stderr),
     mean |-> Get(result, G(i, center)).value,
     mean_uncertainty |-> OrZero(Get(result, G(i, center)).stderr),
     sigma |-> Get(result, G(i, "sigma")).value,
     sigma_uncertainty |-> OrZero(Get(result, G(i, "sigma")).stderr),
     fwhm |-> Get(result, G(i, "fwhm")).value,
     fwhm_uncertainty |-> OrZero(Get(result, G(i, "fwhm")).stderr),
     area |-> Get(result, G(i, "area")).value,
     area_uncertainty |-> OrZero(Get(result, G(i, "area")).stderr)]

\* sub in s, for strings
Contains(s, sub) ==
    \E k \in 1..(Len(s) - Len(sub) + 1) : SubSeq(s, k, k + Len(sub) - 1) = sub

\* 'bg_' in key
IsBgKey(name) == Contains(name, "bg_")

\* The tuples of lines 259-285 and of the other routines that return them:
\* one per peak, then the background list unless bg_type == 'None', then
\* np.linspace(start, stop, num).  The fit report and the y values of the
\* curve, which lmfit renders, are left out.
BackgroundList(res) ==
    LET keys == SelectSeq(res, LAMBDA q : IsBgKey(q.name))
    IN List([k \in 1..Len(keys) |->
               <<keys[k].name, keys[k].value, OrZero(keys[k].stderr)>>])

FitResult(res, n_peaks, center, bg_type, start, stop, num) ==
    [gaussian_params |-> List([k \in 1..n_peaks |-> PeakTuple(res, k - 1, center)]),
     background_params |-> IF bg_type # "None" THEN BackgroundList(res) ELSE <<>>,
     x_data_line |-> [start |-> start, stop |-> stop, num |-> num]]

\* save_modelresult(result, 'temp_fit.sav'): what temp_fit.sav holds afterwards,
\* the parameters of the result and the x it was fitted on
save_modelresult(result, x) == Some([params |-> result, x |-> x])

\* a variant of lines 371-375 that adds the uuid parameter without looking
\* for one
AddUUIDAlwaysAdds(params, peak_number, uuid) ==
    Append(params, [Parameter(G(peak_number, "uuid"), uuid) EXCEPT !.vary = FALSE])

\* Lines 371-375: params.add(f"g{peak_number}_uuid", value=uuid, vary=False)
\* when there is none, else .set(value=uuid, vary=False)
AddUUID(params, peak_number, uuid) ==
    IF G(peak_number, "uuid") \notin Names(params)
    THEN Add(params, [Parameter(G(peak_number, "uuid"), uuid) EXCEPT !.vary = FALSE])
    ELSE SetValueVary(params, G(peak_number, "uuid"), uuid, FALSE)

\* load_result, lines 300-359: the peaks are counted by the keys holding 'g'
\* and '_center'; each tuple ends with the g{i}_uuid parameter, or None
load_result_Result(saved) ==
    LET res == saved.params
        n == Cardinality({k \in DOMAIN res :
                 Contains(res[k].name, "g") /\ Contains(res[k].name, "_center")})
        \* result.params.get(f'g{i}_uuid', None): the Parameter, not its value
        uuid(i) == IF G(i, "uuid") \in Names(res)
                   THEN Some(Get(res, G(i, "uuid"))) ELSE None
    IN [gaussian_params |->
            List([k \in 1..n |->
                [tuple |-> PeakTuple(res, k - 1, "center"), uuid |-> uuid(k - 1)]]),
        background_params |-> BackgroundList(res),
        x_data_line |-> [start |-> saved.x[1], stop |-> saved.x[Len(saved.x)],
                         num |-> 5 * 1000]]

\* ----------------- MultipleGaussianFit, LinearFit, ... (the two lmfit_test.py)
\* lmfit.Model(gaussian, prefix=f'g{i}_').make_params(amplitude=, mean=, sigma=)
GaussianFnMakeParams(i, amplitude, mean, sigma) ==
    << Parameter(G(i, "amplitude"), amplitude),
       Parameter(G(i, "mean"), mean),
       Parameter(G(i, "sigma"), sigma) >>

\* params.add(name, expr=...) and then params[name].set(min=0)
AddExprMin0(params, name, e) ==
    SetMin(Add(params, [Parameter(name, Unevaluated)
                           EXCEPT !.vary = FALSE, !.expr = e]),
           name, 0)

\* make_params(coef=tuple[3], ...) and then, for each coefficient,
\* .set(min=tuple[1], max=tuple[2], value=tuple[3], vary=tuple[4]); `t` maps a
\* coefficient name to its tuple, `prefix` is "bg_" or ""
TupleParams(coefs, t, prefix) ==
    LET made == List([k \in 1..Len(coefs) |->
                        Parameter(prefix \o coefs[k], t[coefs[k]][4])])
        RECURSIVE set(_, _)
        set(ps, k) ==
            IF k > Len(coefs) THEN ps
            ELSE set(SetMinMaxValueVary(ps, prefix \o coefs[k], t[coefs[k]][2],
                                        t[coefs[k]][3], t[coefs[k]][4],
                                        t[coefs[k]][5]), k + 1)
    IN set(made, 1)

TestsBgTypes == {"linear", "quadratic", "exponential", "powerlaw", PyNone}

\* src/tests/lmfit_test.py lines 31-42
TestsDefaultBackgroundParams ==
    LET t(name) == <<name, -Inf, Inf, 0, TRUE>>
    IN [bg_type |-> "linear", slope |-> t("slope"), intercept |-> t("intercept"),
        a |-> t("a"), b |-> t("b"), c |-> t("c"), exponent |-> t("exponent"),
        amplitude |-> t("amplitude"), decay |-> t("decay")]

\* src/tests/lmfit_test.py lines 107-138 for the peak with index i > 0
TestsBindPeak(params, i, a, peak_markers) ==
    LET n == Len(peak_markers)
        last == a.x_data[Len(a.x_data)]
        p1 == Update(params, GaussianFnMakeParams(i, 1000, peak_markers[i + 1], 10))
        p2 == SetMinMax(p1, G(i, "mean"), peak_markers[i],
                        IF i + 1 < n THEN peak_markers[i + 2] ELSE last)
        p3 == AddExprMin0(p2, G(i, "fwhm"),
                          Expr("scale", G(i, "sigma"), "", FwhmNum, FwhmDen))
        p4 == AddExprMin0(p3, G(i, "area"),
                          Expr("area", G(i, "amplitude"), G(i, "sigma"), 1, a.bin_width))
        p5 == IF a.equal_sigma
              THEN SetExpr(p4, G(i, "sigma"), Expr("ref", "g0_sigma", "", 1, 1))
              ELSE SetMin(p4, G(i, "sigma"), 0)
        p6 == SetMin(p5, G(i, "amplitude"), 0)
    IN IF ~a.free_position THEN SetVary(p6, G(i, "mean"), FALSE) ELSE p6

RECURSIVE TestsBindPeaks(_, _, _, _)
TestsBindPeaks(params, i, a, peak_markers) ==
    IF i >= Len(peak_markers) THEN params
    ELSE TestsBindPeaks(TestsBindPeak(params, i, a, peak_markers), i + 1, a,
                        peak_markers)

\* src/tests/lmfit_test.py lines 44-138: the error raised, or the peak markers
\* and the parameters handed to model.fit
TestsMultipleGaussianFit_Begin(a) ==
    LET background_params ==
            IF a.background_params = None THEN TestsDefaultBackgroundParams
            ELSE a.background_params[1]
        bg_type == background_params.bg_type
        fail(t, m) == [err |-> Raise(t, m), peak_markers |-> <<>>, params |-> <<>>]
    IN
    IF bg_type \notin TestsBgTypes
    THEN fail("ValueError", UnsupportedMsg)
    ELSE IF Len(a.peak_markers) = 0 /\ Len(a.y_data) = 0
    THEN fail("ValueError", "attempt to get an argmax of an empty sequence")
    ELSE
    LET bg == TupleParams(BgCoefs(bg_type), background_params, "bg_")
        peak_markers ==
            sorted(IF Len(a.peak_markers) = 0
                   THEN <<a.x_data[argmax(a.y_data)]>> ELSE a.peak_markers)
        last == a.x_data[Len(a.x_data)]
        p1 == Update(bg, GaussianFnMakeParams(0, 1000, peak_markers[1], 10))
        p2 == SetMin(SetMin(p1, "g0_sigma", 0), "g0_amplitude", 0)
        p3 == AddExprMin0(p2, "g0_fwhm", Expr("scale", "g0_sigma", "", FwhmNum, FwhmDen))
        p4 == AddExprMin0(p3, "g0_area",
                          Expr("area", "g0_amplitude", "g0_sigma", 1, a.bin_width))
        p5 == IF ~a.free_position THEN SetVary(p4, "g0_mean", FALSE) ELSE p4
        p6 == SetMinMax(p5, "g0_mean", a.x_data[1],
                        IF Len(peak_markers) > 1 THEN peak_markers[2] ELSE last)
    IN [err |-> NoError, peak_markers |-> peak_markers,
        params |-> TestsBindPeaks(p6, 1, a, peak_markers)]

SrcBgTypes == {"linear", "quadratic", "exponential", "powerlaw", PyNone}

\* src/lmfit_test.py lines 14-37: make_params(coef=bg_initial_guesses[k]) and
\* .set(vary=bg_vary[k])
SrcBgParams(bg_type, bg_initial_guesses, bg_vary) ==
    LET coefs == BgCoefs(bg_type)
        made == List([k \in 1..Len(coefs) |->
                        Parameter("bg_" \o coefs[k], bg_initial_guesses[k])])
        RECURSIVE setVary(_, _)
        setVary(ps, k) ==
            IF k > Len(coefs) THEN ps
            ELSE setVary(SetVary(ps, "bg_" \o coefs[k], bg_vary[k]), k + 1)
    IN setVary(made, 1)

\* src/lmfit_test.py lines 56-71 for the peak with index i > 0; a sigma that
\* make_params is given no value for starts at -inf
SrcBindPeak(params, i, a) ==
    LET p1 == Update(params, GaussianFnMakeParams(i, 1, a.peak_markers[i + 1], -Inf))
        p2 == IF a.equal_sigma
              THEN SetExpr(p1, G(i, "sigma"), Expr("ref", "g0_sigma", "", 1, 1))
              ELSE SetMin(p1, G(i, "sigma"), 0)
        p3 == SetMin(p2, G(i, "amplitude"), 0)
    IN IF ~a.free_position THEN SetVary(p3, G(i, "mean"), FALSE) ELSE p3

RECURSIVE SrcBindPeaks(_, _, _)
SrcBindPeaks(params, i, a) ==
    IF i >= Len(a.peak_markers) THEN params
    ELSE SrcBindPeaks(SrcBindPeak(params, i, a), i + 1, a)

\* src/lmfit_test.py lines 14-71
SrcMultipleGaussianFit_Begin(a) ==
    LET fail(t, m) == [err |-> Raise(t, m), peak_markers |-> <<>>, params |-> <<>>]
    IN
    IF a.bg_type \notin SrcBgTypes
    THEN fail("ValueError", UnsupportedMsg)
    ELSE IF Len(a.peak_markers) = 0
    THEN fail("IndexError", "list index out of range")
    ELSE
    LET bg == SrcBgParams(a.bg_type, a.bg_initial_guesses, a.bg_vary)
        p1 == Update(bg, GaussianFnMakeParams(0, 1, a.peak_markers[1], 1))
        p2 == SetMin(p1, "g0_sigma", 0)
        p3 == IF ~a.free_position THEN SetVary(p2, "g0_mean", FALSE) ELSE p2
    IN [err |-> NoError, peak_markers |-> a.peak_markers,
        params |-> SrcBindPeaks(p3, 1, a)]

\* float(x): TypeError when x is None
FloatFails(stderr) == stderr = None

\* src/lmfit_test.py lines 79-100: float() of every standard error read
SrcExtractionFails(res, n_peaks, bg_type) ==
    \/ \E i \in 0..(n_peaks - 1) :
         \/ FloatFails(Get(res, G(i, "amplitude")).stderr)
         \/ FloatFails(Get(res, G(i, "mean")).stderr)
         \/ FloatFails(Get(res, G(i, "sigma")).stderr)
    \/ /\ bg_type # "None"
       /\ \E k \in DOMAIN res : IsBgKey(res[k].name) /\ FloatFails(res[k].stderr)

SrcPeakTuple(res, i) ==
    [amplitude |-> Get(res, G(i, "amplitude")).value,
     amplitude_uncertainty |-> Get(res, G(i, "amplitude")).stderr[1],
     mean |-> Get(res, G(i, "mean")).value,
     mean_uncertainty |-> Get(res, G(i, "mean")).stderr[1],
     sigma |-> Get(res, G(i, "sigma")).value,
     sigma_uncertainty |-> Get(res, G(i, "sigma")).stderr[1]]

\* LinearFit, QuadraticFit, PowerLawFit, ExponentialFit: the coefficients
SimpleFitCoefs(name) ==
    CASE name = "LinearFit" -> <<"slope", "intercept">>
      [] name = "QuadraticFit" -> <<"a", "b", "c">>
      [] name = "PowerLawFit" -> <<"amplitude", "exponent">>
      [] name = "ExponentialFit" -> <<"amplitude", "decay">>

\* if err is None: err = 0.0 else float(err), for every coefficient
SimpleFit_Result(res, xs) ==
    [gaussian_params |-> <<>>,
     background_params |->
        List([k \in 1..Len(res) |->
                <<res[k].name, res[k].value,
                  IF res[k].stderr = None THEN 0 ELSE res[k].stderr[1]>>]),
     x_data_line |-> [start |-> xs[1], stop |-> xs[Len(xs)], num |-> 5 * Len(xs)]]

\* ------------------------------------------------------- write_histograms
RECURSIVE Sum(_)
Sum(s) == IF Len(s) = 0 THEN 0 ELSE Head(s) + Sum(Tail(s))

\* The spacing of the float32 values around n >= Float32Exact: 2, 4, 8, ...
RECURSIVE Ulp32(_, _)
Ulp32(n, ulp) ==
    IF n < Float32Exact * ulp THEN ulp ELSE Ulp32(n, 2 * ulp)

\* np.float32(n) of an integer n >= 0: n itself up to 2^24, and beyond it the
\* nearest value with a 24 bit mantissa, a tie going to the even mantissa
Float32(n) ==
    IF n <= Float32Exact THEN n
    ELSE LET ulp == Ulp32(n, 1)
             q == n \div ulp
             r == n % ulp
         IN IF 2 * r < ulp THEN q * ulp
            ELSE IF 2 * r > ulp THEN (q + 1) * ulp
            ELSE IF q % 2 = 0 THEN q * ulp ELSE (q + 1) * ulp

\* Line 30: np.array([underflow] + bins + [overflow], dtype=np.float32)
Data1D(bins, underflow, overflow) ==
    LET all == <<underflow>> \o bins \o <<overflow>>
    IN List([i \in 1..Len(all) |-> Float32(all[i])])

\* np.linspace(start, stop, num): num points, the i-th (from 0) at
\* start + i * (stop - start) / (num - 1), kept as a fraction; one point, the
\* start, when num = 1
linspace(start, stop, num) ==
    IF num = 1 THEN << [num |-> start, den |-> 1] >>
    ELSE List([i \in 1..num |->
                 [num |-> start * (num - 1) + (i - 1) * (stop - start),
                  den |-> num - 1]])

\* uproot.writing.identify.to_TAxis(...)
to_TAxis(fName, fTitle, fNbins, fXmin, fXmax, fXbins) ==
    [fName |-> fName, fTitle |-> fTitle, fNbins |-> fNbins, fXmin |-> fXmin,
     fXmax |-> fXmax, fXbins |-> fXbins]

\* Lines 25-63: what is written under `name` for one 1D tuple.  xtitle is the
\* axis title ("" and "X-axis" in the two files).  The moments fTsumw2,
\* fTsumwx and fTsumwx2 are left out.
Write1D(h, xtitle) ==
    LET bin_edges == linspace(h.range[1], h.range[2], Len(h.bins) + 1)
        data == Data1D(h.bins, h.underflow, h.overflow)
    IN [name |-> h.name, class |-> "TH1F", fTitle |-> h.title, data |-> data,
        fEntries |-> Sum(h.bins), fTsumw |-> Sum(h.bins),
        fXaxis |-> to_TAxis("xaxis", xtitle, Len(h.bins), h.range[1], h.range[2],
                            bin_edges)]

RECURSIVE Flatten(_)
Flatten(rows) == IF Len(rows) = 0 THEN <<>> ELSE Head(rows) \o Flatten(Tail(rows))

\* Lines 68-123: what is written for one 2D tuple: the float32 bins inside a
\* frame of zeros, row after row.  The moments other than fTsumw are left out.
Write2D(h) ==
    LET ny == Len(h.bins)
        nx == Len(h.bins[1])
        bins_with_overflow ==
            List([r \in 1..(ny + 2) |->
                List([c \in 1..(nx + 2) |->
                    IF r \in 2..(ny + 1) /\ c \in 2..(nx + 1)
                    THEN Float32(h.bins[r - 1][c - 1]) ELSE 0])])
        \* np.sum of the float32 array (exact for the small counts enumerated)
        total == Float32(Sum(Flatten(bins_with_overflow)))
    IN [name |-> h.name, class |-> "TH2F", fTitle |-> h.title,
        data |-> Flatten(bins_with_overflow),
        fEntries |-> total, fTsumw |-> total,
        fXaxis |-> to_TAxis("xaxis", "X-axis", nx, h.range_x[1], h.range_x[2],
                            linspace(h.range_x[1], h.range_x[2], nx + 1)),
        fYaxis |-> to_TAxis("yaxis", "Y-axis", ny, h.range_y[1], h.range_y[2],
                            linspace(h.range_y[1], h.range_y[2], ny + 1))]

\* The objects written by a call, in the order they are written
WrittenObjects(hist1d_data, hist2d_data, xtitle) ==
    List([k \in 1..Len(hist1d_data) |-> Write1D(hist1d_data[k], xtitle)])
    \o List([k \in 1..Len(hist2d_data) |-> Write2D(hist2d_data[k])])

\* ----------------------------------------------------------------- inputs
Centers(n) == List([i \in 1..n |-> FirstCenter + (i - 1) * BinWidth])

\* A peak of height MaxCount on the bins within w of bin k, with a shoulder
\* of half that height and nothing beyond
HPeak(k, w) ==
    List([i \in 1..NBins |->
        IF Abs(i - k) <= w THEN MaxCount
        ELSE IF Abs(i - k) = w + 1 THEN MaxCount \div 2 ELSE 0])

HFlat == List([i \in 1..NBins |-> 1])
HTwo ==
    List([i \in 1..NBins |->
        IF i = 2 THEN MaxCount ELSE IF i = 5 THEN MaxCount - 1 ELSE 1])

Histograms == {HFlat, HTwo, HPeak(3, 0), HPeak(4, 2)}

\* One count in every bin but the first and the last, which are empty
HHollow == List([i \in 1..NBins |-> IF i \in {1, NBins} THEN 0 ELSE 1])
LastCenter == FirstCenter + (NBins - 1) * BinWidth
WholeHistogram == <<FirstCenter - 1, LastCenter + 1>>

RegionChoices ==
    { <<1, 15>>, <<4, 10>>, <<3, 11>>, <<10, 4>>, <<5, 8>>,
      <<6, 6>>, <<3, 3>>, <<0, 1>>, <<4>> }

PeakChoices ==
    { <<>>, <<6>>, <<5>>, <<3>>, <<8, 6>>, <<4, 10>>, <<4, 14>>, <<14, 6>>, <<6, 6>>,
      <<20>>, <<6, 20>>, <<4, 8, 12>> }

BackgroundMarkerChoices == { <<>>, << <<1, 3>> >>, << <<12, 2>>, <<13, 14>> >> }

\* background_params: the default dictionary of lines 15-24 with the type,
\* the bounds and the vary flags replaced
AllCoefs == {"slope", "intercept", "a", "b", "c", "amplitude", "decay", "exponent"}

BackgroundParams(bg_type, lo, hi, varied) ==
    LET t(name, init) == <<0, lo, hi, init, name \in varied>>
    IN [bg_type |-> bg_type,
        slope |-> t("slope", 1), intercept |-> t("intercept", 0),
        a |-> t("a", 0), b |-> t("b", 1), c |-> t("c", 0),
        amplitude |-> t("amplitude", 1), decay |-> t("decay", 1),
        exponent |-> t("exponent", 1)]

DefaultBackgroundParams == BackgroundParams("linear", -Inf, Inf, AllCoefs)

\* Lines 13-24: the objects the def statement binds as defaults, made once
DefaultArguments ==
    [peak_markers |-> <<>>, background_markers |-> <<>>,
     background_params |-> DefaultBackgroundParams]

BgTypeChoices ==
    {"linear", "quadratic", "exponential", "powerlaw", "None", PyNone, "cubic"}

BackgroundParamChoices ==
    { BackgroundParams(t, -Inf, Inf, v) :
        t \in BgTypeChoices, v \in {AllCoefs, {}, {"slope", "a", "amplitude"}} }
    \cup { BackgroundParams(t, 0, 2, AllCoefs) : t \in {"linear", "exponential"} }

Args(counts, centers, region_markers, peak_markers, background_markers, equal_sigma, free_position, background_params) ==
    [counts |-> counts, centers |-> centers, region_markers |-> region_markers,
     peak_markers |-> peak_markers, background_markers |-> background_markers,
     equal_sigma |-> equal_sigma, free_position |-> free_position,
     background_params |-> background_params]

\* The calls of GaussianFit the model makes: every geometry with the default
\* background, every background with two geometries, calls with
\* len(centers) # len(counts), and a marker on an empty bin.
GaussianFitInputs ==
    { Args(h, Centers(NBins), r, p, m, TRUE, f, DefaultBackgroundParams) :
        h \in Histograms, r \in RegionChoices, p \in PeakChoices,
        m \in BackgroundMarkerChoices, f \in BOOLEAN }
    \cup
    { Args(HTwo, Centers(NBins), <<1, 15>>, p, <<>>, e, f, b) :
        p \in { <<>>, <<4, 10>> }, e \in BOOLEAN, f \in BOOLEAN,
        b \in BackgroundParamChoices }
    \cup
    { Args(HTwo, Centers(NBins), r, <<>>, <<>>, TRUE, TRUE,
           BackgroundParams("cubic", -Inf, Inf, AllCoefs)) :
        r \in { <<4>>, <<0, 1>> } }
    \cup
    { Args(HFlat, c, r, <<>>, <<>>, TRUE, TRUE, b) :
        c \in { Centers(NBins - 1), Centers(NBins + 1), <<>> },
        r \in { <<1, 15>>, <<4>> },
        b \in { DefaultBackgroundParams,
                BackgroundParams("cubic", -Inf, Inf, AllCoefs) } }
    \cup
    { Args(HHollow, Centers(NBins), WholeHistogram, p, <<>>, TRUE, TRUE,
           DefaultBackgroundParams) :
        p \in { <<FirstCenter>>, <<LastCenter>>, <<FirstCenter + BinWidth>> } }

\* The calls of GaussianFit made in a sequence with load_result and
\* Add_UUID_to_Result: one that returns two peaks, one that raises at once, one
\* that raises after the background model is built (no bin in the region)
SequenceInputs ==
    { Args(HTwo, Centers(NBins), WholeHistogram, <<4, 10>>, <<>>, TRUE, TRUE,
           DefaultBackgroundParams),
      Args(HFlat, Centers(NBins - 1), WholeHistogram, <<>>, <<>>, TRUE, TRUE,
           DefaultBackgroundParams),
      Args(HTwo, Centers(NBins), <<6, 6>>, <<6>>, <<>>, TRUE, TRUE,
           DefaultBackgroundParams) }

\* The peak numbers and uuids given to Add_UUID_to_Result
PeakNumbers == {0, 1}
UUIDs == {7, 8}

\* Calls of GaussianFit that leave out (None) some of the arguments that have
\* a default
OmittingInputs ==
    { [counts |-> HTwo, centers |-> Centers(NBins), region_markers |-> r,
       peak_markers |-> p, background_markers |-> m,
       background_params |-> b] :
        r \in { <<1, 15>>, <<3, 11>>, <<0, 1>> },
        p \in { None, Some(<<4, 10>>) },
        m \in { None, Some(<< <<1, 3>> >>) },
        b \in { None, Some(BackgroundParams("quadratic", -Inf, Inf, AllCoefs)) } }

\* The binding of the parameters of lines 12-24: an argument left out is
\* bound to its default object.  `omitted` keeps which ones were.
BindArguments(g, d) ==
    [counts |-> g.counts, centers |-> g.centers,
     region_markers |-> g.region_markers,
     peak_markers |-> IF g.peak_markers = None THEN d.peak_markers
                      ELSE g.peak_markers[1],
     background_markers |-> IF g.background_markers = None
                            THEN d.background_markers
                            ELSE g.background_markers[1],
     equal_sigma |-> TRUE, free_position |-> TRUE,
     background_params |-> IF g.background_params = None
                           THEN d.background_params
                           ELSE g.background_params[1],
     omitted |-> {n \in {"peak_markers", "background_markers", "background_params"} :
                    g[n] = None}]

\* The calls of the two MultipleGaussianFit
TestsInputs ==
    { [x_data |-> Centers(NBins), y_data |-> HTwo, peak_markers |-> p,
       bin_width |-> BinWidth, equal_sigma |-> e, free_position |-> f,
       background_params |-> b] :
        p \in { <<>>, <<6>>, <<10, 4>> }, e \in BOOLEAN, f \in BOOLEAN,
        b \in {None}
              \cup { Some(BackgroundParams(t, -Inf, Inf, AllCoefs)) : t \in BgTypeChoices }
              \cup { Some(BackgroundParams("linear", 0, 2, {})) } }

SrcInputs ==
    { [x_data |-> Centers(NBins), y_data |-> HTwo, peak_markers |-> p,
       equal_sigma |-> e, free_position |-> f, bg_type |-> t,
       bg_initial_guesses |-> <<0, 0, 0>>, bg_vary |-> v] :
        p \in { <<>>, <<6>>, <<10, 4>> }, e \in BOOLEAN, f \in BOOLEAN,
        t \in BgTypeChoices,
        v \in { <<TRUE, TRUE, TRUE>>, <<FALSE, TRUE, FALSE>> } }

\* The calls of LinearFit, QuadraticFit, PowerLawFit, ExponentialFit: the
\* coefficient tuples (name, min, max, initial guess, vary)
SimpleFitInputs ==
    { [x_data |-> Centers(NBins), y_data |-> h,
       tuples |-> BackgroundParams("", b[1], b[2], v)] :
        h \in {HFlat, HTwo}, b \in { <<-Inf, Inf>>, <<0, 2>> },
        v \in { AllCoefs, {}, {"slope", "a", "amplitude"} } }

FileNames == {"temp_fit.sav", "kept_fit.sav", "missing.sav"}

\* The 1D tuples (name, title, bins, underflow, overflow, range) and the 2D
\* tuples (name, title, bins, range_x, range_y) given to write_histograms
CountChoices == {0, 1, Float32Exact + 1}
BinLists == UNION { [1..n -> CountChoices] : n \in 0..MaxHistBins }

Hist1D(name, bins, underflow, overflow, range) ==
    [name |-> name, title |-> "Example 1D Histogram", bins |-> bins,
     underflow |-> underflow, overflow |-> overflow, range |-> range]

Hist1DChoices ==
    { <<Hist1D("hist1d_1", b, u, o, r)>> :
        b \in BinLists, u \in {0, 2}, o \in {0, 1}, r \in { <<0, 3>>, <<1, 7>> } }
    \cup { <<>>,
           <<Hist1D("hist1d_1", <<1, 0, 1>>, 1, 2, <<0, 3>>),
             Hist1D("hist1d_2", <<1, 1>>, 0, 1, <<0, 4>>)>> }

Hist2DChoices ==
    { <<>>,
      << [name |-> "hist2d_1", title |-> "Example 2D Histogram",
          bins |-> << <<1, 2, 3>>, <<4, 5, 6>> >>,
          range_x |-> <<0, 3>>, range_y |-> <<0, 2>>] >> }

\* ------------------------------------------------------------------ state
VARIABLES
    pc,                  \* where the call in progress stands
    fn,                  \* the routine called
    arg,                 \* its arguments
    err,                 \* the exception that ended it (NoError: none)
    bin_width, region_markers, x_data, y_data, peak_markers,
    params,              \* the lmfit Parameters being built
    bg_result,           \* bg_result.params
    estimated_sigma, estimated_amplitude,
    result,              \* result.params of the joint fit
    ret,                 \* the value returned
    solver_log,          \* the Model.fit calls made so far, in order
    file,                \* temp_fit.sav: None, or Some(saved ModelResult)
    kept_file,           \* kept_fit.sav, a copy of temp_fit.sav the caller keeps
    root_file,           \* the ROOT file written: None, or Some(objects written)
    defaults             \* the default argument objects of GaussianFit

vars == <<pc, fn, arg, err, bin_width, region_markers, x_data, y_data,
          peak_markers, params, bg_result, estimated_sigma,
          estimated_amplitude, result, ret, solver_log, file, kept_file,
          root_file, defaults>>

Locals ==
    [bin_width |-> bin_width, region_markers |-> region_markers,
     x_data |-> x_data, y_data |-> y_data, peak_markers |-> peak_markers,
     params |-> params]

NoArg == [counts |-> <<>>]
NoRet == [gaussian_params |-> <<>>]

Init ==
    /\ pc = "idle" /\ fn = "" /\ arg = NoArg /\ err = NoError
    /\ bin_width = 0 /\ region_markers = <<>> /\ x_data = <<>> /\ y_data = <<>>
    /\ peak_markers = <<>> /\ params = <<>> /\ bg_result = <<>>
    /\ estimated_sigma = 0 /\ estimated_amplitude = <<>>
    /\ result = <<>> /\ ret = NoRet /\ solver_log = <<>> /\ file = None
    /\ defaults = DefaultArguments /\ root_file = None /\ kept_file = None

\* One Model.fit call: the model fitted, the data and the parameters handed over
FitCall(model, y, x, bins, ps) ==
    [model |-> model, y |-> y, x |-> x, bins |-> bins, params |-> ps]

\* GaussianFit, lines 12-294, as a function of its arguments and of what its
\* two Model.fit calls return: the error raised, the calls made, the value
\* returned
GaussianFit(a, bg_fit, joint_fit) ==
    LET B == GaussianFit_Begin(a) IN
    IF B.err # NoError THEN [err |-> B.err, calls |-> <<>>, ret |-> NoRet]
    ELSE
    LET bins == BgBins(a.centers, BackgroundMarkers(a, B.region_markers, B.bin_width))
        call1 == FitCall(BgModelOf(a.background_params.bg_type),
                         Take(a.counts, bins), Take(a.centers, bins), bins, B.params)
        L == [bin_width |-> B.bin_width, region_markers |-> B.region_markers,
              x_data |-> B.x_data, y_data |-> B.y_data,
              peak_markers |-> B.peak_markers,
              params |-> FreezeBackground(B.params, bg_fit)]
        D == GaussianFit_Bind(a, L, bg_fit)
    IN
    IF D.err # NoError THEN [err |-> D.err, calls |-> <<call1>>, ret |-> NoRet]
    ELSE [err |-> NoError,
          calls |-> <<call1,
                      FitCall("composite", B.y_data, B.x_data,
                              Mask(a.centers, B.region_markers[1], B.region_markers[2]),
                              D.params)>>,
          ret |-> FitResult(joint_fit, Len(B.peak_markers), "center",
                            a.background_params.bg_type,
                            B.x_data[1], B.x_data[Len(B.x_data)], 5 * Len(B.x_data))]

\* Lines 56-122 with the arguments a
GaussianFit_Enter(a) ==
    LET b == GaussianFit_Begin(a) IN
    /\ fn' = "GaussianFit" /\ arg' = a /\ err' = b.err
    /\ bin_width' = b.bin_width /\ region_markers' = b.region_markers
    /\ x_data' = b.x_data /\ y_data' = b.y_data
    /\ peak_markers' = b.peak_markers /\ params' = b.params
    /\ pc' = IF b.err = NoError THEN "gf_bg_fit" ELSE "raised"
    /\ UNCHANGED <<bg_result, estimated_sigma, estimated_amplitude, result, ret,
                   solver_log, file>>

\* GaussianFit is called with every argument given: lines 56-122
GaussianFit_Call ==
    /\ pc = "idle"
    /\ \E a \in GaussianFitInputs : GaussianFit_Enter(a)
    /\ UNCHANGED <<defaults, root_file, kept_file>>

\* a variant of lines 83-86 that appends the maximum bin to the list it was given
AppendToPeakMarkers(d, a) ==
    IF "peak_markers" \in a.omitted
    THEN [d EXCEPT !.peak_markers = Append(@, a.centers[1])]
    ELSE d

\* Lines 83-92: every `peak_markers = ...` binds the local name to a new
\* list; the list the name was bound to (the default one when the argument is
\* omitted) is left as it is.  d is the default objects after the statement.
RebindPeakMarkers(d, a) == d

\* GaussianFit is called with some of peak_markers, background_markers and
\* background_params omitted: the names are bound to the default objects
GaussianFit_CallOmitting ==
    /\ pc = "idle"
    /\ \E g \in OmittingInputs :
         LET a == BindArguments(g, defaults)
         IN /\ GaussianFit_Enter(a)
            /\ defaults' = RebindPeakMarkers(defaults, a)
    /\ UNCHANGED <<root_file, kept_file>>

\* The call is over: its locals are discarded; temp_fit.sav and the default
\* objects stay
GaussianFit_Done ==
    /\ fn = "GaussianFit" /\ pc \in {"returned", "raised"}
    /\ pc' = "idle" /\ fn' = "" /\ arg' = NoArg /\ err' = NoError
    /\ bin_width' = 0 /\ region_markers' = <<>> /\ x_data' = <<>> /\ y_data' = <<>>
    /\ peak_markers' = <<>> /\ params' = <<>> /\ bg_result' = <<>>
    /\ estimated_sigma' = 0 /\ estimated_amplitude' = <<>>
    /\ result' = <<>> /\ ret' = NoRet /\ solver_log' = <<>>
    /\ UNCHANGED <<file, defaults, root_file, kept_file>>

\* Lines 124-157: the background pre-fit, and its result frozen into params.
\* The code never reads a standard error of bg_result.
GaussianFit_BackgroundFit ==
    /\ pc = "gf_bg_fit"
    /\ \E o \in {s \in SolverOutcomes : s.errorbars} :
         LET bins == BgBins(arg.centers,
                            BackgroundMarkers(arg, region_markers, bin_width))
             bg_x == Take(arg.centers, bins)
             bg_y == Take(arg.counts, bins)
             r == Solve(params, o)
         IN /\ solver_log' = Append(solver_log,
                                FitCall(BgModelOf(arg.background_params.bg_type),
                                        bg_y, bg_x, bins, params))
            /\ bg_result' = r
            /\ params' = FreezeBackground(params, r)
    /\ pc' = "gf_bind"
    /\ UNCHANGED <<fn, arg, err, bin_width, region_markers, x_data, y_data,
                   peak_markers, estimated_sigma, estimated_amplitude, result,
                   ret, file>>
    /\ UNCHANGED <<defaults, root_file, kept_file>>

\* Lines 159-245: the estimates and the peak parameters
GaussianFit_BindPeaks ==
    /\ pc = "gf_bind"
    /\ LET b == GaussianFit_Bind(arg, Locals, bg_result) IN
         /\ err' = b.err /\ params' = b.params
         /\ estimated_sigma' = b.estimated_sigma
         /\ estimated_amplitude' = b.estimated_amplitude
         /\ pc' = IF b.err = NoError THEN "gf_fit" ELSE "raised"
    /\ UNCHANGED <<fn, arg, bin_width, region_markers, x_data, y_data,
                   peak_markers, bg_result, result, ret, solver_log, file>>
    /\ UNCHANGED <<defaults, root_file, kept_file>>

\* Line 247: the joint fit of background + peaks on the region
GaussianFit_JointFit ==
    /\ pc = "gf_fit"
    /\ \E o \in SolverOutcomes :
         /\ result' = Solve(params, o)
         /\ solver_log' = Append(solver_log,
                             FitCall("composite", y_data, x_data,
                                     Mask(arg.centers, region_markers[1],
                                          region_markers[2]),
                                     params))
    /\ pc' = "gf_extract"
    /\ UNCHANGED <<fn, arg, err, bin_width, region_markers, x_data, y_data,
                   peak_markers, params, bg_result, estimated_sigma,
                   estimated_amplitude, ret, file>>
    /\ UNCHANGED <<defaults, root_file, kept_file>>

\* Lines 259-294: the tuples are extracted, the result is saved, the call returns
GaussianFit_Return ==
    /\ pc = "gf_extract"
    /\ ret' = FitResult(result, Len(peak_markers), "center",
                        arg.background_params.bg_type,
                        x_data[1], x_data[Len(x_data)], 5 * Len(x_data))
    /\ file' = save_modelresult(result, x_data)
    /\ pc' = "returned"
    /\ UNCHANGED <<fn, arg, err, bin_width, region_markers, x_data, y_data,
                   peak_markers, params, bg_result, estimated_sigma,
                   estimated_amplitude, result, solver_log>>
    /\ UNCHANGED <<defaults, root_file, kept_file>>

\* load_modelresult(filename): what the file of that name holds, None when
\* there is no such file
FileAt(filename) ==
    IF filename = "temp_fit.sav" THEN file
    ELSE IF filename = "kept_fit.sav" THEN kept_file
    ELSE None

\* a variant of load_result without line 357: temp_fit.sav is left as it is
load_resultWithoutSaving ==
    /\ pc \in {"idle", "returned"} /\ fn # "load_result"
    /\ \E filename \in FileNames :
         /\ fn' = "load_result" /\ arg' = [filename |-> filename]
         /\ IF FileAt(filename) = None
            THEN /\ err' = Raise("FileNotFoundError", filename)
                 /\ result' = <<>> /\ ret' = NoRet
                 /\ pc' = "raised"
            ELSE /\ err' = NoError
                 /\ result' = FileAt(filename)[1].params
                 /\ ret' = load_result_Result(FileAt(filename)[1])
                 /\ pc' = "returned"
    /\ UNCHANGED <<bin_width, region_markers, x_data, y_data, peak_markers,
                   params, bg_result, estimated_sigma, estimated_amplitude,
                   solver_log, file>>
    /\ UNCHANGED <<defaults, root_file, kept_file>>

\* load_result(filename), lines 296-359, called first or after a call returned
load_result ==
    /\ pc \in {"idle", "returned"} /\ fn # "load_result"
    /\ \E filename \in FileNames :
         /\ fn' = "load_result" /\ arg' = [filename |-> filename]
         /\ IF FileAt(filename) = None
            THEN /\ err' = Raise("FileNotFoundError", filename)
                 /\ result' = <<>> /\ ret' = NoRet
                 /\ pc' = "raised"
                 /\ UNCHANGED file
            ELSE /\ err' = NoError
                 /\ result' = FileAt(filename)[1].params
                 /\ ret' = load_result_Result(FileAt(filename)[1])
                 /\ file' = save_modelresult(FileAt(filename)[1].params,
                                              FileAt(filename)[1].x)
                 /\ pc' = "returned"
    /\ UNCHANGED <<bin_width, region_markers, x_data, y_data, peak_markers,
                   params, bg_result, estimated_sigma, estimated_amplitude,
                   solver_log>>
    /\ UNCHANGED <<defaults, root_file, kept_file>>

AllBins(x) == List([i \in 1..Len(x) |-> i])

\* MultipleGaussianFit of src/tests/lmfit_test.py, lines 16-183
TestsMultipleGaussianFit ==
    /\ pc = "idle"
    /\ \E a \in TestsInputs, o \in SolverOutcomes :
         LET b == TestsMultipleGaussianFit_Begin(a)
             r == Solve(b.params, o)
             bg_type == IF a.background_params = None THEN "linear"
                        ELSE a.background_params[1].bg_type
         IN /\ fn' = "tests/MultipleGaussianFit" /\ arg' = a /\ err' = b.err
            /\ x_data' = a.x_data /\ y_data' = a.y_data /\ bin_width' = a.bin_width
            /\ peak_markers' = b.peak_markers /\ params' = b.params
            /\ IF b.err # NoError
               THEN pc' = "raised" /\ UNCHANGED <<result, ret, solver_log>>
               ELSE /\ solver_log' = Append(solver_log,
                                        FitCall("composite", a.y_data, a.x_data,
                                                AllBins(a.x_data), b.params))
                    /\ result' = r
                    /\ ret' = FitResult(r, Len(b.peak_markers), "mean", bg_type,
                                        a.x_data[1], a.x_data[Len(a.x_data)],
                                        5 * Len(a.x_data))
                    /\ pc' = "returned"
    /\ UNCHANGED <<region_markers, bg_result, estimated_sigma,
                   estimated_amplitude, file>>
    /\ UNCHANGED <<defaults, root_file, kept_file>>

\* MultipleGaussianFit of src/lmfit_test.py, lines 9-108
SrcMultipleGaussianFit ==
    /\ pc = "idle"
    /\ \E a \in SrcInputs, o \in SolverOutcomes :
         LET b == SrcMultipleGaussianFit_Begin(a)
             r == Solve(b.params, o)
         IN /\ fn' = "src/MultipleGaussianFit" /\ arg' = a
            /\ x_data' = a.x_data /\ y_data' = a.y_data
            /\ peak_markers' = b.peak_markers /\ params' = b.params
            /\ IF b.err # NoError
               THEN /\ err' = b.err /\ pc' = "raised"
                    /\ UNCHANGED <<result, ret, solver_log>>
               ELSE /\ solver_log' = Append(solver_log,
                                        FitCall("composite", a.y_data, a.x_data,
                                                AllBins(a.x_data), b.params))
                    /\ result' = r
                    /\ IF SrcExtractionFails(r, Len(b.peak_markers), a.bg_type)
                       THEN /\ err' = Raise("TypeError",
                                      "float() argument must be a string or a real number, not 'NoneType'")
                            /\ pc' = "raised" /\ UNCHANGED ret
                       ELSE /\ err' = NoError
                            /\ ret' = [gaussian_params |->
                                          List([k \in 1..Len(b.peak_markers) |->
                                                  SrcPeakTuple(r, k - 1)]),
                                       background_params |->
                                          IF a.bg_type # "None"
                                          THEN BackgroundList(r) ELSE <<>>,
                                       x_data_line |->
                                          [start |-> a.x_data[1],
                                           stop |-> a.x_data[Len(a.x_data)],
                                           num |-> 5 * Len(a.x_data)]]
                            /\ pc' = "returned"
    /\ UNCHANGED <<bin_width, region_markers, bg_result, estimated_sigma,
                   estimated_amplitude, file>>
    /\ UNCHANGED <<defaults, root_file, kept_file>>

\* LinearFit, QuadraticFit, PowerLawFit, ExponentialFit (the same code in both
\* lmfit_test.py): make_params, the bounds, the fit, the extraction
SimpleFit(name) ==
    /\ pc = "idle"
    /\ \E a \in SimpleFitInputs, o \in SolverOutcomes :
         LET ps == TupleParams(SimpleFitCoefs(name), a.tuples, "")
             r == Solve(ps, o)
         IN /\ fn' = name /\ arg' = a /\ err' = NoError
            /\ x_data' = a.x_data /\ y_data' = a.y_data /\ params' = ps
            /\ solver_log' = Append(solver_log,
                                FitCall(name, a.y_data, a.x_data,
                                        AllBins(a.x_data), ps))
            /\ result' = r
            /\ ret' = SimpleFit_Result(r, a.x_data)
            /\ pc' = "returned"
    /\ UNCHANGED <<bin_width, region_markers, peak_markers, bg_result,
                   estimated_sigma, estimated_amplitude, file>>
    /\ UNCHANGED <<defaults, root_file, kept_file>>

LinearFit == SimpleFit("LinearFit")
QuadraticFit == SimpleFit("QuadraticFit")
PowerLawFit == SimpleFit("PowerLawFit")
ExponentialFit == SimpleFit("ExponentialFit")

\* write_histograms(output_file, hist1d_data, hist2d_data) of
\* spectrix_histograms_to_root.py: the file is made anew and every tuple written
write_histograms ==
    /\ pc = "idle"
    /\ \E h1 \in Hist1DChoices, h2 \in Hist2DChoices :
         /\ arg' = [output_file |-> "histograms.root", hist1d_data |-> h1,
                    hist2d_data |-> h2]
         /\ root_file' = Some(WrittenObjects(h1, h2, ""))
    /\ fn' = "write_histograms" /\ err' = NoError /\ pc' = "returned"
    /\ UNCHANGED <<bin_width, region_markers, x_data, y_data, peak_markers,
                   params, bg_result, estimated_sigma, estimated_amplitude,
                   result, ret, solver_log, file, kept_file, defaults>>

\* write_histograms(output_file, hist1d_data) of src/test.py
test_write_histograms ==
    /\ pc = "idle"
    /\ \E h1 \in Hist1DChoices :
         /\ arg' = [output_file |-> "test_histograms.root", hist1d_data |-> h1,
                    hist2d_data |-> <<>>]
         /\ root_file' = Some(WrittenObjects(h1, <<>>, "X-axis"))
    /\ fn' = "test/write_histograms" /\ err' = NoError /\ pc' = "returned"
    /\ UNCHANGED <<bin_width, region_markers, x_data, y_data, peak_markers,
                   params, bg_result, estimated_sigma, estimated_amplitude,
                   result, ret, solver_log, file, kept_file, defaults>>

Next ==
    \/ GaussianFit_Call
    \/ GaussianFit_BackgroundFit
    \/ GaussianFit_BindPeaks
    \/ GaussianFit_JointFit
    \/ GaussianFit_Return
    \/ load_result
    \/ TestsMultipleGaussianFit
    \/ SrcMultipleGaussianFit
    \/ LinearFit
    \/ QuadraticFit
    \/ PowerLawFit
    \/ ExponentialFit
    \/ write_histograms
    \/ test_write_histograms

Spec == Init /\ [][Next]_vars

\* Sequences of GaussianFit calls that rely on the defaults
NextSeq ==
    \/ GaussianFit_CallOmitting
    \/ GaussianFit_BackgroundFit
    \/ GaussianFit_BindPeaks
    \/ GaussianFit_JointFit
    \/ GaussianFit_Return
    \/ GaussianFit_Done

SpecSeq == Init /\ [][NextSeq]_vars

\* Add_UUID_to_Result(file_path, peak_number, uuid), lines 361-385: the result
\* loaded from file_path, with the uuid parameter added or updated, is saved
\* to temp_fit.sav.  The fit report returned, which lmfit renders, is left out.
Add_UUID_to_Result ==
    /\ pc = "idle"
    /\ \E file_path \in FileNames, peak_number \in PeakNumbers, uuid \in UUIDs :
         /\ fn' = "Add_UUID_to_Result"
         /\ arg' = [file_path |-> file_path, peak_number |-> peak_number,
                    uuid |-> uuid]
         /\ IF FileAt(file_path) = None
            THEN /\ err' = Raise("FileNotFoundError", file_path)
                 /\ result' = <<>>
                 /\ pc' = "raised"
                 /\ UNCHANGED file
            ELSE /\ err' = NoError
                 /\ result' = AddUUID(FileAt(file_path)[1].params, peak_number, uuid)
                 /\ file' = save_modelresult(result', FileAt(file_path)[1].x)
                 /\ pc' = "returned"
    /\ UNCHANGED <<bin_width, region_markers, x_data, y_data, peak_markers,
                   params, bg_result, estimated_sigma, estimated_amplitude,
                   ret, solver_log>>
    /\ UNCHANGED <<defaults, root_file, kept_file>>

\* GaussianFit called again, after earlier calls (lines 12-294)
GaussianFit_CallAgain ==
    /\ pc = "idle"
    /\ \E a \in SequenceInputs : GaussianFit_Enter(a)
    /\ UNCHANGED <<defaults, root_file, kept_file>>

\* The caller copies temp_fit.sav to kept_fit.sav, a file_path that
\* load_result and Add_UUID_to_Result can then be given
KeepCopy ==
    /\ pc = "idle" /\ file # None /\ kept_file # file
    /\ kept_file' = file
    /\ UNCHANGED <<pc, fn, arg, err, bin_width, region_markers, x_data, y_data,
                   peak_markers, params, bg_result, estimated_sigma,
                   estimated_amplitude, result, ret, solver_log, file,
                   root_file, defaults>>

\* load_result or Add_UUID_to_Result has returned or raised: the caller goes on
Files_Done ==
    /\ fn \in {"load_result", "Add_UUID_to_Result"} /\ pc \in {"returned", "raised"}
    /\ pc' = "idle" /\ fn' = "" /\ arg' = NoArg /\ err' = NoError
    /\ bin_width' = 0 /\ region_markers' = <<>> /\ x_data' = <<>> /\ y_data' = <<>>
    /\ peak_markers' = <<>> /\ params' = <<>> /\ bg_result' = <<>>
    /\ estimated_sigma' = 0 /\ estimated_amplitude' = <<>>
    /\ result' = <<>> /\ ret' = NoRet /\ solver_log' = <<>>
    /\ UNCHANGED <<file, defaults, root_file, kept_file>>

\* Sequences of GaussianFit, load_result and Add_UUID_to_Result calls
NextFiles ==
    \/ GaussianFit_CallAgain
    \/ GaussianFit_BackgroundFit
    \/ GaussianFit_BindPeaks
    \/ GaussianFit_JointFit
    \/ GaussianFit_Return
    \/ GaussianFit_Done
    \/ load_result
    \/ Add_UUID_to_Result
    \/ KeepCopy
    \/ Files_Done

SpecFiles == Init /\ [][NextFiles]_vars

\* ----------------------------------------------------------------- claims
\* The region of a call, written out: low = min, high = max of the two markers
Low(a) == Min2(a.region_markers[1], a.region_markers[2])
High(a) == Max2(a.region_markers[1], a.region_markers[2])
InRegion(a, x) == Low(a) <= x /\ x <= High(a)
CentersWidth(a) == a.centers[2] - a.centers[1]

\* A GaussianFit call whose first checks (lines 56-67) pass
WellFormed(a) ==
    /\ Len(a.centers) = Len(a.counts) /\ Len(a.centers) >= 2
    /\ Len(a.region_markers) = 2

GaussianFitCalled == fn = "GaussianFit" /\ pc # "idle"
GaussianFitEnded == fn = "GaussianFit" /\ pc \in {"returned", "raised"}

\* What the call in progress did, in the shape GaussianFit(a, _, _) gives
Outcome == [err |-> err, calls |-> solver_log, ret |-> ret]

\* The ranges the background is pre-fitted on, written out: the ones given, or
\* one bin width on each side of the region
InBands(a, x) ==
    IF Len(a.background_markers) = 0
    THEN \/ Low(a) - CentersWidth(a) <= x /\ x <= Low(a)
         \/ High(a) <= x /\ x <= High(a) + CentersWidth(a)
    ELSE \E k \in DOMAIN a.background_markers :
           LET m == a.background_markers[k]
           IN Min2(m[1], m[2]) <= x /\ x <= Max2(m[1], m[2])

\* The calls that differ from a in the count of one bin, among the bins `where`
Perturbed(a, where) ==
    UNION { { [a EXCEPT !.counts[i] = v] :
                v \in {0, a.counts[i] + 1} \ {a.counts[i]} } : i \in where }

OutsideRegion(a) == {i \in DOMAIN a.counts : ~InRegion(a, a.centers[i])}
OutsideRegionAndBands(a) ==
    {i \in OutsideRegion(a) : ~InBands(a, a.centers[i])}

\* What the background pre-fit of call a may return: what it returned in this
\* run if it is handed the same data and parameters, anything the solver can
\* return otherwise
PreFitResults(a) ==
    LET r == GaussianFit(a, bg_result, result)
    IN IF Len(r.calls) >= 1 /\ r.calls[1] = solver_log[1]
       THEN {bg_result}
       ELSE {Solve(solver_log[1].params, o) : o \in {s \in SolverOutcomes : s.errorbars}}

Reversed(a) == a.region_markers[1] > a.region_markers[2]
BinsInRegion(a) == {i \in DOMAIN a.centers : InRegion(a, a.centers[i])}
EmptyRegion(a) == Low(a) = High(a) \/ BinsInRegion(a) = {}
SupportedByGaussianFit(bg_type) ==
    bg_type \in {"linear", "quadratic", "exponential", "powerlaw", "None"}

\* C2 as stated: GaussianFit called with a reversed or an empty region ends in
\* a validation error, and no solver call is made before it.
C2_InvalidRegionRaisesBeforeAnySolverCall ==
    (GaussianFitCalled /\ WellFormed(arg) /\ (Reversed(arg) \/ EmptyRegion(arg))) =>
        /\ solver_log = <<>>
        /\ pc # "returned"
        /\ pc = "raised" => err.type = "ValueError"

\* C2, amended: a reversed region is sorted and fitted like the sorted one.
\* An empty region never gets to the joint fit and returns nothing: the call
\* ends in a ValueError or an IndexError, before any solver call only when no
\* bin center is inside [low, high] and no peak marker was given, and after
\* the background pre-fit otherwise.
C2_ReversedRegionSortedEmptyRegionRaises ==
    (GaussianFitCalled /\ WellFormed(arg)) =>
        /\ (pc # "raised" \/ solver_log # <<>>) =>
              region_markers = <<Low(arg), High(arg)>>
        /\ (Reversed(arg) /\ pc \in {"returned", "raised"}) =>
              LET ordered == [arg EXCEPT !.region_markers = <<Low(arg), High(arg)>>]
                  B == GaussianFit_Begin(ordered)
              IN /\ B.err # NoError => (err = B.err /\ solver_log = <<>>)
                 /\ B.err = NoError =>
                       /\ solver_log # <<>>
                       /\ GaussianFit(ordered, bg_result, result) = Outcome
        /\ EmptyRegion(arg) =>
              /\ pc \notin {"gf_fit", "gf_extract", "returned"}
              /\ Len(solver_log) <= 1 /\ ret = NoRet
              /\ pc = "raised" => err.type \in {"ValueError", "IndexError"}
              /\ (pc = "raised"
                  /\ SupportedByGaussianFit(arg.background_params.bg_type)) =>
                    (solver_log = <<>>
                        <=> (BinsInRegion(arg) = {} /\ Len(arg.peak_markers) = 0))

C2_Witness ==
    /\ GaussianFitCalled /\ WellFormed(arg) /\ EmptyRegion(arg)
    /\ pc = "raised" /\ Len(solver_log) = 1

\* The peak markers given all lie outside the region
AllMarkersOutside(a) ==
    /\ Len(a.peak_markers) > 0
    /\ \A k \in DOMAIN a.peak_markers : ~InRegion(a, a.peak_markers[k])

\* C3: if peak markers are given to GaussianFit and every one of them lies
\* outside the region, the call ends in a ValueError and returns nothing: the
\* markers left are none (no fallback to the maximum bin) and the joint fit
\* is never reached.
C3_NoMarkerLeftRaises ==
    (GaussianFitCalled /\ WellFormed(arg) /\ AllMarkersOutside(arg)) =>
        /\ pc \notin {"gf_fit", "gf_extract", "returned"}
        /\ peak_markers = <<>>
        /\ ret = NoRet /\ result = <<>>
        /\ \A k \in DOMAIN solver_log : solver_log[k].model # "composite"
        /\ pc = "raised" => err.type = "ValueError"

C3_Witness ==
    /\ GaussianFitCalled /\ WellFormed(arg) /\ AllMarkersOutside(arg)
    /\ ~EmptyRegion(arg)
    /\ pc = "raised" /\ err.type = "ValueError" /\ Len(solver_log) = 1

\* The background model name of the call, and whether the routine called
\* supports it: GaussianFit takes the four models and the string 'None', the
\* two MultipleGaussianFit take the four models and the value None
BgTypeOf(f, a) ==
    CASE f = "GaussianFit" -> a.background_params.bg_type
      [] f = "tests/MultipleGaussianFit" ->
            IF a.background_params = None THEN "linear"
            ELSE a.background_params[1].bg_type
      [] f = "src/MultipleGaussianFit" -> a.bg_type

Unsupported(f, a) ==
    /\ f \in {"GaussianFit", "tests/MultipleGaussianFit", "src/MultipleGaussianFit"}
    /\ BgTypeOf(f, a) \notin
          {"linear", "quadratic", "exponential", "powerlaw",
           IF f = "GaussianFit" THEN "None" ELSE PyNone}

\* The name as str() prints it
ChoiceText(bg_type) == IF bg_type = PyNone THEN "None" ELSE bg_type

\* A check of GaussianFit that comes before the background model is looked at
\* fails (lines 56-86)
EarlierCheckFails(f, a) ==
    /\ f = "GaussianFit"
    /\ \/ ~WellFormed(a)
       \/ Len(a.peak_markers) = 0 /\ BinsInRegion(a) = {}

\* C4 as stated: when bg_type is not a supported choice, GaussianFit and the
\* two MultipleGaussianFit fail with an error whose message names the choice
\* that was passed, and no solver call is made.
C4_UnsupportedBackgroundErrorNamesChoice ==
    (pc # "idle" /\ Unsupported(fn, arg)) =>
        /\ pc = "raised" /\ solver_log = <<>>
        /\ Contains(err.msg, ChoiceText(BgTypeOf(fn, arg)))

\* C4, amended: when bg_type is not a supported choice, the routine raises a
\* ValueError and makes no solver call.  The message is the fixed text
\* "Unsupported background model", which does not name the choice; GaussianFit
\* raises it only if its checks of the lengths, of the region and of the
\* default peak pass, and the error of the failing check otherwise.
C4_UnsupportedBackgroundFixedMessage ==
    (pc # "idle" /\ Unsupported(fn, arg)) =>
        /\ pc = "raised" /\ solver_log = <<>> /\ ret = NoRet
        /\ ~EarlierCheckFails(fn, arg) =>
              /\ err.type = "ValueError"
              /\ err.msg = "Unsupported background model"
              /\ ~Contains(err.msg, ChoiceText(BgTypeOf(fn, arg)))
        /\ EarlierCheckFails(fn, arg) =>
              /\ err.type \in {"ValueError", "IndexError"}
              /\ err.msg # "Unsupported background model"

C4_Witness ==
    /\ fn = "GaussianFit" /\ Unsupported(fn, arg) /\ ~EarlierCheckFails(fn, arg)
    /\ pc = "raised" /\ err.msg = "Unsupported background model"

\* The standard errors the routine called reads from the fit result, and the
\* uncertainties it returns
FittingRoutines ==
    {"GaussianFit", "load_result", "tests/MultipleGaussianFit",
     "src/MultipleGaussianFit", "LinearFit", "QuadraticFit", "PowerLawFit",
     "ExponentialFit"}

NoStandardErrors == result # <<>> /\ \A k \in DOMAIN result : result[k].stderr = None

PeakUncertainties(t) ==
    {t.amplitude_uncertainty, t.mean_uncertainty, t.sigma_uncertainty}
    \cup (IF "fwhm_uncertainty" \in DOMAIN t
          THEN {t.fwhm_uncertainty, t.area_uncertainty} ELSE {})

Uncertainties(r) ==
    UNION { PeakUncertainties(IF "tuple" \in DOMAIN r.gaussian_params[k]
                              THEN r.gaussian_params[k].tuple
                              ELSE r.gaussian_params[k]) :
              k \in DOMAIN r.gaussian_params }
    \cup { r.background_params[k][3] : k \in DOMAIN r.background_params }

\* C5: when the optimizer supplies no standard error, every fitting routine
\* reports the uncertainties as zero and still returns its result.
C5_MissingStandardErrorReportedAsZero ==
    (fn \in FittingRoutines /\ pc \in {"returned", "raised"} /\ NoStandardErrors) =>
        /\ pc = "returned"
        /\ Uncertainties(ret) = {0}

\* The parameters handed to the joint fit of the GaussianFit call in progress
JointFitMade == fn = "GaussianFit" /\ Len(solver_log) = 2
JointParams == solver_log[2].params
CenterOf(i) == Get(JointParams, G(i - 1, "center"))

PreFitMade == fn = "GaussianFit" /\ Len(solver_log) >= 1
PreFitBins == {solver_log[1].bins[k] : k \in DOMAIN solver_log[1].bins}
NoPeakTerm ==
    /\ solver_log[1].model # "composite"
    /\ \A k \in DOMAIN solver_log[1].params : IsBgKey(solver_log[1].params[k].name)

\* C7 as stated: with background_markers empty, the background is pre-fitted,
\* with no peak term, only on bins outside the region within one bin width of
\* an edge; no bin with its center in [low, high] takes part.
C7_DefaultPreFitOnlyOutsideRegion ==
    (PreFitMade /\ Len(arg.background_markers) = 0) =>
        /\ NoPeakTerm
        /\ \A i \in PreFitBins :
              /\ ~InRegion(arg, arg.centers[i])
              /\ Low(arg) - CentersWidth(arg) <= arg.centers[i]
              /\ arg.centers[i] <= High(arg) + CentersWidth(arg)

\* C7, amended: with background_markers empty, the background is pre-fitted,
\* with no peak term, on exactly the bins with a center in
\* [low - bin width, low] or in [high, high + bin width], both ends included:
\* a bin whose center is low or high takes part, no other bin of the region
\* does.
C7_DefaultPreFitOnClosedSideBands ==
    (PreFitMade /\ Len(arg.background_markers) = 0) =>
        /\ NoPeakTerm
        /\ PreFitBins =
              {i \in DOMAIN arg.centers :
                  \/ /\ Low(arg) - CentersWidth(arg) <= arg.centers[i]
                     /\ arg.centers[i] <= Low(arg)
                  \/ /\ High(arg) <= arg.centers[i]
                     /\ arg.centers[i] <= High(arg) + CentersWidth(arg)}
        /\ \A i \in PreFitBins :
              InRegion(arg, arg.centers[i]) => arg.centers[i] \in {Low(arg), High(arg)}
        /\ \A k \in DOMAIN solver_log[1].bins :
              /\ solver_log[1].x[k] = arg.centers[solver_log[1].bins[k]]
              /\ solver_log[1].y[k] = arg.counts[solver_log[1].bins[k]]

C7_Witness ==
    /\ PreFitMade /\ Len(arg.background_markers) = 0
    /\ \E i \in PreFitBins : arg.centers[i] = Low(arg)
    /\ \E i \in PreFitBins : arg.centers[i] > High(arg)

\* C8: as the docstring of GaussianFit says, with background_markers empty the
\* background is fitted over the full region: on exactly the bins with a
\* center in [low, high].
C8_DefaultPreFitOnFullRegion ==
    (PreFitMade /\ Len(arg.background_markers) = 0) =>
        PreFitBins = BinsInRegion(arg)

\* The vary flag background_params gives a coefficient; `name` is "bg_<coef>"
VaryFlag(a, name) ==
    a.background_params[SubSeq(name, 4, Len(name))][5]

\* C9 as stated: in the joint fit a background coefficient is frozen at the
\* value the pre-fit found, unless the caller set its vary flag to True, and
\* then it is varied.
C9_BackgroundVariedWhenCallerAsks ==
    (JointFitMade /\ arg.background_params.bg_type # "None") =>
        \A k \in DOMAIN bg_result :
            LET q == Get(JointParams, bg_result[k].name)
            IN IF VaryFlag(arg, q.name)
               THEN q.vary
               ELSE ~q.vary /\ q.value = bg_result[k].value

\* C9, amended: in the joint fit every background coefficient is frozen at the
\* value the pre-fit found, whatever its vary flag in background_params; the
\* flag decides only whether the pre-fit varies the coefficient.
C9_BackgroundAlwaysFrozenInJointFit ==
    /\ (PreFitMade /\ arg.background_params.bg_type # "None") =>
          \A k \in DOMAIN solver_log[1].params :
              LET q == solver_log[1].params[k]
              IN q.vary = VaryFlag(arg, q.name)
    /\ JointFitMade =>
          /\ bg_result # <<>>
          /\ \A k \in DOMAIN bg_result :
                LET q == Get(JointParams, bg_result[k].name)
                IN /\ ~q.vary /\ q.expr = NoExpr
                   /\ q.value = bg_result[k].value
                   /\ pc \in {"gf_extract", "returned"} =>
                         Get(result, q.name).value = bg_result[k].value

C9_Witness ==
    /\ JointFitMade /\ pc = "returned"
    /\ arg.background_params.bg_type = "linear"
    /\ VaryFlag(arg, "bg_slope") /\ ~VaryFlag(arg, "bg_intercept")
    /\ Get(bg_result, "bg_slope").value # arg.background_params.slope[4]

\* The markers GaussianFit fits: the ones given, sorted, those outside the
\* region dropped; the center of the maximum bin of the region if none is given
MarkersFitted(a) ==
    IF Len(a.peak_markers) = 0 THEN peak_markers
    ELSE SelectSeq(sorted(a.peak_markers), LAMBDA m : InRegion(a, m))

\* C10: with free_position = False every center is non-varying when the joint
\* fit is run and holds its peak marker, the binding of value, min and max
\* after set(vary=False) does not make it vary again, and every center
\* returned equals its marker.
C10_FixedCentersEqualMarkers ==
    (JointFitMade /\ ~arg.free_position) =>
        /\ peak_markers = MarkersFitted(arg)
        /\ \A i \in DOMAIN peak_markers :
              /\ ~CenterOf(i).vary /\ CenterOf(i).expr = NoExpr
              /\ CenterOf(i).value = peak_markers[i] * SigmaDen
              /\ pc = "returned" =>
                    ret.gaussian_params[i].mean = peak_markers[i] * SigmaDen

C10_Witness ==
    /\ JointFitMade /\ ~arg.free_position /\ pc = "returned"
    /\ Len(arg.peak_markers) = 2 /\ Len(peak_markers) = 2
    /\ arg.peak_markers[1] > arg.peak_markers[2]
    /\ ret.gaussian_params[1].mean = arg.peak_markers[2] * SigmaDen

\* The routines that fit peaks, and their composite fit once it is made
PeakFitters ==
    {"GaussianFit", "tests/MultipleGaussianFit", "src/MultipleGaussianFit"}
CompositeFitMade ==
    /\ fn \in PeakFitters /\ result # <<>> /\ solver_log # <<>>
    /\ solver_log[Len(solver_log)].model = "composite"
CompositeParams == solver_log[Len(solver_log)].params
NPeaks == Len(peak_markers)
SigmaOf(ps, i) == Get(ps, G(i, "sigma"))
AmplitudeOf(ps, i) == Get(ps, G(i, "amplitude"))
BoundToFirstSigma == Expr("ref", "g0_sigma", "", 1, 1)

\* C11: with equal_sigma and two or more peaks, the width of every peak after
\* the first is bound to g0_sigma by an expression (and so is not varied), and
\* the widths the fit gives and the call returns all equal the first one; with
\* equal_sigma off every width is a varied parameter with no expression.  The
\* first width is a varied parameter in both cases.
C11_EqualSigmaBindsWidthsToFirst ==
    CompositeFitMade =>
        /\ SigmaOf(CompositeParams, 0).expr = NoExpr
        /\ SigmaOf(CompositeParams, 0).vary
        /\ \A i \in 1..(NPeaks - 1) :
             IF arg.equal_sigma
             THEN /\ SigmaOf(CompositeParams, i).expr = BoundToFirstSigma
                  /\ ~SigmaOf(CompositeParams, i).vary
                  /\ SigmaOf(result, i).value = SigmaOf(result, 0).value
                  /\ pc = "returned" =>
                        /\ ret.gaussian_params[i + 1].sigma = ret.gaussian_params[1].sigma
                        /\ fn # "src/MultipleGaussianFit" =>
                             ret.gaussian_params[i + 1].fwhm = ret.gaussian_params[1].fwhm
             ELSE /\ SigmaOf(CompositeParams, i).expr = NoExpr
                  /\ SigmaOf(CompositeParams, i).vary

C11_Witness ==
    /\ fn = "GaussianFit" /\ pc = "returned" /\ arg.equal_sigma /\ NPeaks >= 2
    /\ SigmaOf(CompositeParams, 1).expr = BoundToFirstSigma
    /\ ret.gaussian_params[2].sigma = ret.gaussian_params[1].sigma

\* A parameter kept non-negative: lower bound 0 of its own, or an expression
\* that makes it equal to a parameter with lower bound 0
NonNegative(ps, name) ==
    LET q == Get(ps, name)
    IN IF q.expr = NoExpr THEN q.min >= 0
       ELSE /\ q.expr.op = "ref"
            /\ Get(ps, q.expr.of).expr = NoExpr
            /\ Get(ps, q.expr.of).min >= 0

\* C12: in the composite model handed to the solver every peak's amplitude and
\* every peak's width is kept non-negative, in GaussianFit and in both
\* MultipleGaussianFit.
C12_AmplitudesAndWidthsNonNegative ==
    CompositeFitMade =>
        \A i \in 0..(NPeaks - 1) :
            /\ NonNegative(CompositeParams, G(i, "amplitude"))
            /\ NonNegative(CompositeParams, G(i, "sigma"))

\* The numbers two derived values stand for are equal
SameNumber(d1, d2) ==
    \/ d1.num = 0 /\ d2.num = 0
    \/ d1.sqrt2pi = d2.sqrt2pi /\ d1.num * d2.den = d2.num * d1.den

\* The routines that return an area, once they returned
AreaReturned ==
    fn \in {"GaussianFit", "tests/MultipleGaussianFit"} /\ pc = "returned"
AreaOf(ps, i) == Get(ps, G(i, "area"))
IsDerived(q) == q.expr # NoExpr /\ ~q.vary

\* C13 as stated: every returned area is derived (an expression, not varied)
\* and equals amplitude * width * sqrt(2 pi) / bin width of the amplitude and
\* the width returned for the same peak.
C13_AreaIsAmplitudeTimesWidth ==
    AreaReturned =>
        \A i \in 1..NPeaks :
            LET t == ret.gaussian_params[i]
            IN /\ IsDerived(AreaOf(CompositeParams, i - 1))
               /\ SameNumber(t.area, Derived(t.amplitude * t.sigma, bin_width, TRUE))

\* C13, amended: every returned area is derived.  MultipleGaussianFit of
\* tests/lmfit_test.py returns amplitude * width * sqrt(2 pi) / bin width;
\* GaussianFit, whose amplitude is the area under the GaussianModel curve,
\* returns amplitude / bin width, and 0 when the amplitude fitted is negative.
C13_AreaDerivedFromAmplitude ==
    AreaReturned =>
        \A i \in 1..NPeaks :
            LET t == ret.gaussian_params[i]
            IN /\ IsDerived(AreaOf(CompositeParams, i - 1))
               /\ fn = "tests/MultipleGaussianFit" =>
                    /\ AreaOf(CompositeParams, i - 1).expr =
                          Expr("area", G(i - 1, "amplitude"), G(i - 1, "sigma"),
                               1, bin_width)
                    /\ SameNumber(t.area,
                                  Derived(t.amplitude * t.sigma, bin_width, TRUE))
               /\ fn = "GaussianFit" =>
                    /\ AreaOf(CompositeParams, i - 1).expr =
                          Expr("scale", G(i - 1, "amplitude"), "", 1, bin_width)
                    /\ SameNumber(t.area,
                                  Derived(Max2(t.amplitude, 0), bin_width, FALSE))

C13_Witness ==
    /\ fn = "GaussianFit" /\ pc = "returned" /\ NPeaks >= 2
    /\ ret.gaussian_params[1].amplitude > 0 /\ ret.gaussian_params[1].sigma > 0
    /\ ret.gaussian_params[1].area.num > 0

\* A GaussianFit call with bg_type 'None' (the string)
NoBackground == fn = "GaussianFit" /\ arg.background_params.bg_type = "None"
BgKeys(ps) == SelectSeq(ps, LAMBDA q : IsBgKey(q.name))
ZeroConstant(ps) ==
    /\ Len(BgKeys(ps)) = 1 /\ BgKeys(ps)[1].name = "bg_c"
    /\ BgKeys(ps)[1].value = 0 /\ ~BgKeys(ps)[1].vary /\ BgKeys(ps)[1].expr = NoExpr

\* C14: with bg_type 'None' GaussianFit fits a constant background of value 0
\* that is not varied.  The pre-fit is handed that one parameter and gives it
\* back as 0, so the background is 0 at every x; the joint fit is handed it as
\* 0 and not varied and gives it back as 0; every amplitude estimate has 0
\* subtracted as background.
C14_NoBackgroundIsFrozenZeroConstant ==
    (NoBackground /\ PreFitMade) =>
        /\ solver_log[1].model = "constant"
        /\ solver_log[1].params = BgKeys(solver_log[1].params)
        /\ ZeroConstant(solver_log[1].params)
        /\ ZeroConstant(bg_result)
        /\ \A k \in DOMAIN arg.centers :
             BgEval("constant", bg_result, arg.centers[k]).coef = 0
        /\ \A k \in DOMAIN estimated_amplitude :
             /\ estimated_amplitude[k].bg.kind = "poly"
             /\ estimated_amplitude[k].bg.coef = 0
             /\ estimated_amplitude[k].height =
                   y_data[Closest(x_data, peak_markers[k])]
        /\ JointFitMade =>
             /\ ZeroConstant(JointParams)
             /\ ZeroConstant(result)
             /\ \A k \in DOMAIN JointParams :
                  JointParams[k].vary => ~IsBgKey(JointParams[k].name)

C14_Witness ==
    /\ NoBackground /\ pc = "returned" /\ NPeaks >= 2
    /\ ZeroConstant(result)
    /\ estimated_amplitude[1].height > 0 /\ estimated_amplitude[1].bg.coef = 0

\* C15: as the docstring of GaussianFit lists, bg_type = None (Python's None)
\* is accepted: the call is not rejected as an unsupported background model,
\* and the peaks are fitted with a background that is zero.
C15_PythonNoneIsAccepted ==
    (GaussianFitCalled /\ WellFormed(arg)
        /\ arg.background_params.bg_type = PyNone) =>
        /\ ~(pc = "raised" /\ err = Raise("ValueError", UnsupportedMsg))
        /\ JointFitMade => ZeroConstant(JointParams)

\* A step in which load_result reads the file the GaussianFit call just saved
LoadsWhatGaussianFitSaved ==
    /\ fn = "GaussianFit" /\ pc = "returned"
    /\ fn' = "load_result" /\ pc' = "returned"

\* C16: load_result on the file a successful GaussianFit saved returns, for
\* every peak and in the same order, the values and uncertainties GaussianFit
\* returned, and the same background parameter list, for every supported
\* background type, 'None' included.
C16_LoadResultReturnsWhatGaussianFitReturned ==
    [][LoadsWhatGaussianFitSaved =>
          /\ Len(ret'.gaussian_params) = Len(ret.gaussian_params)
          /\ \A i \in DOMAIN ret.gaussian_params :
               ret'.gaussian_params[i].tuple = ret.gaussian_params[i]
          /\ ret'.background_params = ret.background_params]_vars

\* A GaussianFit call that left out some of the arguments with a default
RelyingOnDefaults ==
    GaussianFitCalled /\ "omitted" \in DOMAIN arg /\ arg.omitted # {}

\* C17: no state persists across GaussianFit calls.  The default argument
\* objects are never modified, so every call that leaves an argument out sees
\* the default of the def statement; and whatever calls came before, a call
\* that ended did what GaussianFit does with its own arguments and the
\* results of its own two fits: the same error, the same data and parameters
\* handed to the solver, the same value returned.
C17_NoStateAcrossCalls ==
    /\ defaults = DefaultArguments
    /\ RelyingOnDefaults =>
         \A n \in arg.omitted : arg[n] = DefaultArguments[n]
    /\ GaussianFitEnded => GaussianFit(arg, bg_result, result) = Outcome
    /\ pc = "idle" =>
         /\ Locals = [bin_width |-> 0, region_markers |-> <<>>, x_data |-> <<>>,
                      y_data |-> <<>>, peak_markers |-> <<>>, params |-> <<>>]
         /\ solver_log = <<>> /\ result = <<>> /\ bg_result = <<>>

\* A call that relies on all three defaults is about to return, after an
\* earlier call returned (temp_fit.sav is there) with another result
C17_Witness ==
    /\ RelyingOnDefaults /\ pc = "gf_extract"
    /\ arg.omitted = {"peak_markers", "background_markers", "background_params"}
    /\ file # None /\ file[1].params # result

\* The tuples of background_params the call in progress was given
GivenBackgroundParams ==
    IF fn = "GaussianFit" THEN arg.background_params
    ELSE IF arg.background_params = None THEN TestsDefaultBackgroundParams
    ELSE arg.background_params[1]

\* C18: the lower and upper bounds given for a background coefficient
\* (positions 1 and 2 of its tuple) are the min and max of that background
\* parameter in every fit made by GaussianFit and by MultipleGaussianFit.
C18_BackgroundBoundsApplied ==
    (fn \in {"GaussianFit", "tests/MultipleGaussianFit"}
        /\ GivenBackgroundParams.bg_type \notin {"None", PyNone}) =>
        \A c \in DOMAIN solver_log :
            \A k \in DOMAIN solver_log[c].params :
                LET q == solver_log[c].params[k]
                    t == GivenBackgroundParams[SubSeq(q.name, 4, Len(q.name))]
                IN IsBgKey(q.name) => (q.min = t[2] /\ q.max = t[3])

\* The bins with the maximum count among `bins`, and the first of them
MaxBins(counts, bins) == {i \in bins : \A k \in bins : counts[k] <= counts[i]}
FirstMaxBin(counts, bins) ==
    CHOOSE i \in MaxBins(counts, bins) : \A k \in MaxBins(counts, bins) : i <= k

\* The peak markers of the call are set: GaussianFit is past line 92,
\* MultipleGaussianFit of tests/lmfit_test.py past line 92 of its own
NoMarkerGiven ==
    /\ \/ /\ GaussianFitCalled /\ WellFormed(arg)
          /\ SupportedByGaussianFit(arg.background_params.bg_type)
          /\ BinsInRegion(arg) # {}
       \/ fn = "tests/MultipleGaussianFit" /\ pc = "returned"
    /\ Len(arg.peak_markers) = 0

\* C19: when peak_markers is empty the fit has exactly one peak, and its
\* initial center is the center of the bin with the maximum count among the
\* bins in the region (all the bins given, for MultipleGaussianFit), the first
\* one of them when several tie; it is never a bin outside the region.
C19_DefaultPeakIsFirstMaximumInRegion ==
    NoMarkerGiven =>
        LET bins == IF fn = "GaussianFit" THEN BinsInRegion(arg)
                    ELSE DOMAIN arg.x_data
            xs == IF fn = "GaussianFit" THEN arg.centers ELSE arg.x_data
            ys == IF fn = "GaussianFit" THEN arg.counts ELSE arg.y_data
            peak == xs[FirstMaxBin(ys, bins)]
        IN /\ peak_markers = <<peak>>
           /\ fn = "GaussianFit" => InRegion(arg, peak_markers[1])
           /\ CompositeFitMade =>
                /\ {i \in 0..NBins : G(i, "amplitude") \in Names(CompositeParams)} = {0}
                /\ fn = "GaussianFit" =>
                     Get(CompositeParams, "g0_center").value = peak * SigmaDen
                /\ fn # "GaussianFit" =>
                     Get(CompositeParams, "g0_mean").value = peak

\* No marker given, several bins in the region tie for the maximum, and a bin
\* outside the region holds more
C19_Witness ==
    /\ NoMarkerGiven /\ fn = "GaussianFit" /\ pc = "returned"
    /\ Cardinality(MaxBins(arg.counts, BinsInRegion(arg))) >= 2
    /\ \E k \in DOMAIN arg.counts :
         /\ k \notin BinsInRegion(arg)
         /\ arg.counts[k] > arg.counts[FirstMaxBin(arg.counts, BinsInRegion(arg))]

\* A call of either write_histograms has returned
HistogramsWritten ==
    /\ fn \in {"write_histograms", "test/write_histograms"}
    /\ pc = "returned"

\* The object written for the k-th 1D tuple
Written1D(k) == root_file[1][k]

\* The edges are uniformly spaced: the i-th is min + (i-1) * (max-min) / nbins
UniformEdges(edges, lo, hi, nbins) ==
    \A i \in DOMAIN edges :
        edges[i].num * nbins = (lo * nbins + (i - 1) * (hi - lo)) * edges[i].den

\* The layout of what is written for every 1D tuple: the data array has
\* len(bins)+2 elements, the float32 of the underflow first, of the bins in
\* input order, and of the overflow last; the axis has len(bins) bins and
\* len(bins)+1 uniformly spaced edges, the first at range min and, when there
\* is a bin, the last at range max; fEntries is the sum of the bins alone.
WrittenLayout1D ==
    HistogramsWritten =>
        /\ root_file # None
        /\ Len(root_file[1]) = Len(arg.hist1d_data) + Len(arg.hist2d_data)
        /\ \A k \in DOMAIN arg.hist1d_data :
             LET h == arg.hist1d_data[k]
                 w == Written1D(k)
                 n == Len(h.bins)
             IN /\ w.name = h.name
                /\ Len(w.data) = n + 2
                /\ w.data[1] = Float32(h.underflow)
                /\ \A i \in 1..n : w.data[i + 1] = Float32(h.bins[i])
                /\ w.data[n + 2] = Float32(h.overflow)
                /\ w.fXaxis.fNbins = n
                /\ Len(w.fXaxis.fXbins) = n + 1
                /\ n >= 1 => UniformEdges(w.fXaxis.fXbins, h.range[1], h.range[2], n)
                /\ w.fXaxis.fXbins[1].num = h.range[1] * w.fXaxis.fXbins[1].den
                /\ n >= 1 => w.fXaxis.fXbins[n + 1].num
                                = h.range[2] * w.fXaxis.fXbins[n + 1].den
                /\ w.fEntries = Sum(h.bins)

\* C20: for every 1D tuple given to write_histograms the written data array
\* has length len(bins)+2 and holds the underflow count first, the bin counts
\* in input order and the overflow count last, on an axis of len(bins) bins
\* with len(bins)+1 uniformly spaced edges from range min to range max, and
\* the entry count written is the sum of the in-range bins only.
C20_WrittenDataHoldsTheCounts ==
    HistogramsWritten =>
        \A k \in DOMAIN arg.hist1d_data :
            LET h == arg.hist1d_data[k]
                w == Written1D(k)
                n == Len(h.bins)
            IN /\ Len(w.data) = n + 2
               /\ w.data[1] = h.underflow
               /\ \A i \in 1..n : w.data[i + 1] = h.bins[i]
               /\ w.data[n + 2] = h.overflow
               /\ w.fXaxis.fNbins = n
               /\ Len(w.fXaxis.fXbins) = n + 1
               /\ n >= 1 => UniformEdges(w.fXaxis.fXbins, h.range[1], h.range[2], n)
               /\ w.fEntries = Sum(h.bins)

\* The written counts differ from the counts given only where a count is
\* above Float32Exact, and then by less than one part in 2^24
WrittenCountsAreFloat32 ==
    HistogramsWritten =>
        \A k \in DOMAIN arg.hist1d_data :
            LET h == arg.hist1d_data[k]
                w == Written1D(k)
            IN \A i \in DOMAIN h.bins :
                 /\ h.bins[i] <= Float32Exact => w.data[i + 1] = h.bins[i]
                 /\ h.bins[i] > Float32Exact =>
                       /\ w.data[i + 1] # h.bins[i] => w.data[i + 1] % 2 = 0
                       /\ (w.data[i + 1] - h.bins[i]) \in -1..1

\* GaussianFit has estimated the width (lines 159-184)
WidthEstimated == fn = "GaussianFit" /\ pc \in {"gf_fit", "gf_extract", "returned"}

\* The bin of the tallest marked peak: the bin closest to the marker with the
\* highest count at its closest bin, the first such marker when several tie
TallestBin ==
    LET h(k) == y_data[Closest(x_data, peak_markers[k])]
        top == CHOOSE k \in DOMAIN peak_markers :
                  /\ \A j \in DOMAIN peak_markers : h(j) <= h(k)
                  /\ \A j \in 1..(k - 1) : h(j) < h(k)
    IN Closest(x_data, peak_markers[top])

AtOrBelowHalf(j) == 2 * y_data[j] <= y_data[TallestBin]
TwoBinWidths == 2 * bin_width * SigmaDen

\* No bin at or below half the height on the left of the peak bin, or none on
\* its right
NoCrossingBesidePeak ==
    \/ ~ \E j \in 1..(TallestBin - 1) : AtOrBelowHalf(j)
    \/ ~ \E j \in (TallestBin + 1)..Len(x_data) : AtOrBelowHalf(j)

\* The same with the peak bin itself counted on the right, as
\* y_data[peak_idx:] of line 172 does
NoCrossingPeakBinOnRight ==
    \/ ~ \E j \in 1..(TallestBin - 1) : AtOrBelowHalf(j)
    \/ ~ \E j \in TallestBin..Len(x_data) : AtOrBelowHalf(j)

\* C21 as stated: the width estimate of GaussianFit is never smaller than two
\* bin widths, and it is exactly two bin widths whenever no bin at or below
\* half the height of the tallest marked peak is found on its left side or on
\* its right side within the region.
C21_WidthEstimateTwoBinWidthsWithoutCrossing ==
    WidthEstimated =>
        /\ estimated_sigma >= TwoBinWidths
        /\ NoCrossingBesidePeak => estimated_sigma = TwoBinWidths

\* C21: the width estimate of GaussianFit is never smaller than two bin
\* widths, and it is exactly two bin widths whenever no bin at or below half
\* the height of the tallest marked peak is found on its left, or none is
\* found among the peak bin itself and the bins on its right; otherwise it is
\* the larger of two bin widths and the distance between the nearest such
\* bins on either side divided by 2.3548.
C21_WidthEstimateAtLeastTwoBinWidths ==
    WidthEstimated =>
        /\ estimated_sigma >= TwoBinWidths
        /\ NoCrossingPeakBinOnRight => estimated_sigma = TwoBinWidths
        /\ ~NoCrossingPeakBinOnRight =>
              LET l == CHOOSE j \in 1..(TallestBin - 1) :
                         /\ AtOrBelowHalf(j)
                         /\ \A k \in (j + 1)..(TallestBin - 1) : ~AtOrBelowHalf(k)
                  r == CHOOSE j \in TallestBin..Len(x_data) :
                         /\ AtOrBelowHalf(j)
                         /\ \A k \in TallestBin..(j - 1) : ~AtOrBelowHalf(k)
              IN estimated_sigma
                   = Max2((x_data[r] - x_data[l]) * SigmaNum, TwoBinWidths)

\* The tallest marked peak sits on an empty bin with no bin to its right, and
\* the estimate is wider than two bin widths
C21_Witness ==
    /\ WidthEstimated /\ pc = "returned"
    /\ y_data[TallestBin] = 0 /\ TallestBin = Len(x_data)
    /\ estimated_sigma > TwoBinWidths

\* GaussianFit has passed line 92: its peak markers are the ones it fits
MarkersChosen ==
    /\ fn = "GaussianFit"
    /\ pc \in {"gf_bg_fit", "gf_bind", "gf_fit", "gf_extract", "returned"}

Count(s, v) == Cardinality({k \in DOMAIN s : s[k] = v})
Ascending(s) == \A k \in 1..(Len(s) - 1) : s[k] <= s[k + 1]

\* C22: GaussianFit drops every peak marker outside [low, high] and sorts the
\* others ascending; every peak it fits and every entry it returns belongs to
\* one remaining marker, entry i (parameters g{i}_*) having the i-th smallest
\* of them as its initial center, whatever the order the markers were given in.
C22_OnePeakPerMarkerInRegionAscending ==
    (MarkersChosen /\ Len(arg.peak_markers) > 0) =>
        /\ Ascending(peak_markers)
        /\ \A k \in DOMAIN arg.peak_markers :
             LET m == arg.peak_markers[k]
             IN Count(peak_markers, m)
                  = IF InRegion(arg, m) THEN Count(arg.peak_markers, m) ELSE 0
        /\ \A k \in DOMAIN peak_markers : Count(arg.peak_markers, peak_markers[k]) > 0
        /\ JointFitMade =>
             /\ {i \in 0..(2 * NBins) : G(i, "center") \in Names(JointParams)}
                  = 0..(Len(peak_markers) - 1)
             /\ \A i \in DOMAIN peak_markers :
                  CenterOf(i).value = peak_markers[i] * SigmaDen
        /\ pc = "returned" => Len(ret.gaussian_params) = Len(peak_markers)

\* Markers given in descending order, one of them outside the region, and a
\* result returned
C22_Witness ==
    /\ MarkersChosen /\ pc = "returned"
    /\ \E j, k \in DOMAIN arg.peak_markers :
         j < k /\ arg.peak_markers[j] > arg.peak_markers[k]
    /\ \E k \in DOMAIN arg.peak_markers : ~InRegion(arg, arg.peak_markers[k])
    /\ Len(ret.gaussian_params) >= 1

\* C23: for every peak bound by GaussianFit, one or several, duplicates and
\* markers on a region edge included, the bounds of its center satisfy
\* low <= min <= initial guess <= max <= high, [low, high] being the sorted
\* region, and the initial guess is the peak's marker.
C23_CenterBoundsEncloseGuessInsideRegion ==
    JointFitMade =>
        \A i \in DOMAIN peak_markers :
            /\ Low(arg) * SigmaDen <= CenterOf(i).min
            /\ CenterOf(i).min <= CenterOf(i).value
            /\ CenterOf(i).value <= CenterOf(i).max
            /\ CenterOf(i).max <= High(arg) * SigmaDen
            /\ CenterOf(i).value = peak_markers[i] * SigmaDen

\* Two peaks on the same marker: the first is bounded above and the second
\* below by the marker itself
C23_Witness ==
    /\ JointFitMade /\ Len(peak_markers) >= 2
    /\ peak_markers[1] = peak_markers[2]
    /\ CenterOf(1).max = CenterOf(1).value
    /\ CenterOf(2).min = CenterOf(2).value
    /\ CenterOf(1).min < CenterOf(1).value

\* Several peaks, the first on the lower edge of the region and the last on
\* the upper edge
MarkersOnBothEdges ==
    /\ JointFitMade /\ Len(peak_markers) >= 2
    /\ peak_markers[1] = Low(arg) /\ peak_markers[Len(peak_markers)] = High(arg)
    /\ CenterOf(1).min = CenterOf(1).value

\* A GaussianFit call with len(centers) != len(counts)
LengthMismatch == fn = "GaussianFit" /\ Len(arg.centers) # Len(arg.counts)

FileCalls == {"GaussianFit", "load_result", "Add_UUID_to_Result"}

\* This step is the successful end of a call of one of them
CallSucceeds ==
    /\ fn' \in FileCalls /\ pc' = "returned"
    /\ pc # "returned" \/ fn' # fn

\* The x of the model result of the call that ends: the region's bins for
\* GaussianFit, the x of the result loaded for the other two
ResultX ==
    IF fn' = "GaussianFit" THEN x_data'
    ELSE IF fn' = "load_result" THEN FileAt(arg'.filename)[1].x
    ELSE FileAt(arg'.file_path)[1].x

\* C25: in any sequence of GaussianFit, load_result and Add_UUID_to_Result
\* calls, temp_fit.sav changes only when a call succeeds, and it then holds
\* the model result of that call; a call that fails, at whatever line, leaves
\* temp_fit.sav exactly as it was.
C25_TempFileHoldsLastSuccessfulResult ==
    [][ /\ CallSucceeds =>
              /\ file' # None
              /\ file'[1].params = result'
              /\ file'[1].x = ResultX
        /\ ~CallSucceeds => file' = file ]_vars

\* A GaussianFit call that fails after its background pre-fit, made when
\* temp_fit.sav holds a result to which a uuid was added
C25_Witness ==
    /\ fn = "GaussianFit" /\ pc = "raised" /\ solver_log # <<>>
    /\ file # None
    /\ G(0, "uuid") \in Names(file[1].params)

\* The parameters other than `name`, in order
Others(ps, name) == SelectSeq(ps, LAMBDA q : q.name # name)

\* C26: Add_UUID_to_Result(file_path, k, u) saves the result loaded from
\* file_path with nothing changed but g{k}_uuid: the parameter is there exactly
\* once, with value u and not varying, whether it was there before or not,
\* every other parameter and the data are as they were loaded, and the file at
\* file_path is not rewritten unless it is temp_fit.sav.  When there is no
\* file at file_path no file is written.
C26_AddUUIDChangesOnlyTheUUID ==
    [][ (pc = "idle" /\ fn' = "Add_UUID_to_Result") =>
          LET loaded == FileAt(arg'.file_path)
              name == G(arg'.peak_number, "uuid")
          IN /\ kept_file' = kept_file
             /\ loaded = None => (pc' = "raised" /\ file' = file)
             /\ loaded # None =>
                  /\ pc' = "returned" /\ file' # None
                  /\ Count([i \in DOMAIN file'[1].params |-> file'[1].params[i].name],
                           name) = 1
                  /\ Get(file'[1].params, name).value = arg'.uuid
                  /\ ~Get(file'[1].params, name).vary
                  /\ Others(file'[1].params, name) = Others(loaded[1].params, name)
                  /\ file'[1].x = loaded[1].x
      ]_vars

\* The uuid of a peak that has one already is given anew, in the file the
\* caller kept: temp_fit.sav holds the new uuid, the kept file the old one
C26_Witness ==
    /\ fn = "Add_UUID_to_Result" /\ pc = "returned"
    /\ arg.file_path = "kept_fit.sav" /\ kept_file # None /\ file # None
    /\ G(arg.peak_number, "uuid") \in Names(kept_file[1].params)
    /\ Get(kept_file[1].params, G(arg.peak_number, "uuid")).value # arg.uuid
    /\ Get(file[1].params, G(arg.peak_number, "uuid")).value = arg.uuid

\* The same call with its region markers given in the other order
Swapped(a) ==
    [a EXCEPT !.region_markers =
        List([i \in 1..Len(a.region_markers) |->
                a.region_markers[Len(a.region_markers) + 1 - i]])]

\* C27: GaussianFit called with region_markers [a, b] and with [b, a], all
\* other arguments equal, passes or fails the same checks, selects the same
\* in-region bins and the same peak markers, binds the same center bounds,
\* makes the same two fits and returns the same result.
C27_RegionMarkerOrderDoesNotMatter ==
    GaussianFitCalled =>
        /\ GaussianFit_Begin(Swapped(arg)) = GaussianFit_Begin(arg)
        /\ (pc # "raised" \/ solver_log # <<>>) =>
              /\ x_data = GaussianFit_Begin(Swapped(arg)).x_data
              /\ y_data = GaussianFit_Begin(Swapped(arg)).y_data
              /\ peak_markers = GaussianFit_Begin(Swapped(arg)).peak_markers
        /\ JointFitMade =>
              \A i \in DOMAIN peak_markers :
                 LET b == CenterBounds(i, peak_markers,
                                       GaussianFit_Begin(Swapped(arg)).region_markers,
                                       estimated_sigma)
                 IN CenterOf(i).min = b.min /\ CenterOf(i).max = b.max
        /\ (GaussianFitEnded /\ GaussianFit_Begin(arg).err = NoError) =>
              GaussianFit(Swapped(arg), bg_result, result) = Outcome

\* A call with the upper region marker first, several peaks and the default
\* pre-fit ranges, which returned a result
C27_Witness ==
    /\ GaussianFitCalled /\ WellFormed(arg) /\ Reversed(arg)
    /\ pc = "returned"
    /\ Len(peak_markers) >= 2 /\ Len(arg.background_markers) = 0
    /\ Len(ret.gaussian_params) = Len(peak_markers)
====
